---- MODULE Spec2Model ----
(***************************************************************************)
(* Flow Run Orchestration Engine of activepieces: the run lifecycle        *)
(* manager (flowRunService: start, test, pause, addToQueue, retry,         *)
(* updateStatus), the synchronous-response router (returnHandlerId) and    *)
(* the execution log store (updateLogs, getOnePopulatedOrThrow), as a      *)
(* state machine over the run store, the file store and the job queue.     *)
(*                                                                         *)
(* Every service method is an async function: between two awaited store    *)
(* operations another call may run.  A call therefore occupies a slot and  *)
(* advances one awaited store operation at a time (its position is pc).    *)
(***************************************************************************)
EXTENDS Integers, Sequences, FiniteSets, TLC

(***************************************************************************)
(* Bounds of the model.                                                    *)
(***************************************************************************)
MaxRuns == 2
MaxOps == 4

(***************************************************************************)
(* Values.                                                                 *)
(***************************************************************************)
Undefined == "undefined"
NoId == 0
NilPM == [type |-> "NIL"]
NoRun == [id |-> NoId]
\* executionState: null
NoState == [null |-> TRUE]

ServerId == "srv"
OtherHandler == "h1"

RUNNING == "RUNNING"
PAUSED == "PAUSED"
SUCCEEDED == "SUCCEEDED"
FAILED == "FAILED"

PRODUCTION == "PRODUCTION"
TESTING == "TESTING"

BEGIN == "BEGIN"
RESUME == "RESUME"

FROM_FAILED_STEP == "FROM_FAILED_STEP"
ON_LATEST_VERSION == "ON_LATEST_VERSION"

Projects == {"p1", "p2"}
Versions == {"v1", "v2", "v3"}
\* The requests callers make of start: a production run of "v1" (project
\* "p1"), a run of "v3" (project "p2") for another worker's handler, and a
\* version asked for under a project that does not own its flow
StartRequest(projectId, flowVersionId, environment, executionType, synchronousHandlerId) ==
    [projectId |-> projectId, flowVersionId |-> flowVersionId,
     environment |-> environment, executionType |-> executionType,
     synchronousHandlerId |-> synchronousHandlerId]
StartRequests ==
    {StartRequest("p1", "v1", "PRODUCTION", "BEGIN", "srv"),
     StartRequest("p2", "v3", "PRODUCTION", "RESUME", "h1"),
     StartRequest("p2", "v1", "PRODUCTION", "BEGIN", "srv")}
RequestIds == {"abc", "xyz"}
\* Two callers at a time
Slots == {1, 2}

\* flowVersionService.getOneOrThrow(flowVersionId).flowId
FlowOfVersion(v) == IF v = "v3" THEN "f2" ELSE "f1"

\* flowService.getOneOrThrow({id, projectId}): the project that owns the flow
ProjectOfFlow(f) == IF f = "f2" THEN "p2" ELSE "p1"

\* flowVersionService.getLatestLockedVersionOrThrow(flowId).id
LatestLockedVersion(f) == IF f = "f2" THEN "v3" ELSE "v2"

\* flowVersion.trigger.name
TriggerName(v) == "trigger"

VARIABLES runs, files, queue, calls, nextRunId, nextFileId, opCount, pauseSeq

vars == <<runs, files, queue, calls, nextRunId, nextFileId, opCount, pauseSeq>>

(***************************************************************************)
(* Pure helpers.                                                           *)
(***************************************************************************)
\* isNil of a pause metadata, and of a loaded run
isNilPause(pauseMetadata) == pauseMetadata = NilPM
isNilRun(flowRun) == flowRun = NoRun

\* JavaScript truthiness of an optional string
Truthy(s) == s # Undefined /\ s # ""

\* returnHandlerId without the comparison of the request ids
returnHandlerId_AnyRequest(pauseMetadata, requestId) ==
    IF isNilPause(pauseMetadata)
    THEN ServerId
    ELSE IF pauseMetadata.type = "WEBHOOK" /\ Truthy(pauseMetadata.handlerId)
         THEN pauseMetadata.handlerId
         ELSE ServerId

\* returnHandlerId(pauseMetadata, requestId)
returnHandlerId(pauseMetadata, requestId) ==
    IF isNilPause(pauseMetadata)
    THEN ServerId
    ELSE IF /\ pauseMetadata.type = "WEBHOOK"
            /\ requestId = pauseMetadata.requestId
            /\ Truthy(pauseMetadata.handlerId)
         THEN pauseMetadata.handlerId
         ELSE ServerId

\* matchRequestId that needs a WEBHOOK-typed pause
matchRequestId_PausedOnly(pauseMetadata, requestId) ==
    pauseMetadata.type = "WEBHOOK" /\ requestId = pauseMetadata.requestId

\* matchRequestId that lets a DELAY-typed pause through
matchRequestId_AnyType(pauseMetadata, requestId) ==
    \/ isNilPause(pauseMetadata)
    \/ pauseMetadata.type = "DELAY"
    \/ (pauseMetadata.type = "WEBHOOK" /\ requestId = pauseMetadata.requestId)

\* matchRequestId without the comparison of the request ids
matchRequestId_AnyRequest(pauseMetadata, requestId) ==
    isNilPause(pauseMetadata) \/ pauseMetadata.type = "WEBHOOK"

\* addToQueue: const matchRequestId = ...
matchRequestId(pauseMetadata, requestId) ==
    \/ isNilPause(pauseMetadata)
    \/ (pauseMetadata.type = "WEBHOOK" /\ requestId = pauseMetadata.requestId)

\* The pause metadata a worker may hand to pause()
DelayPause == [type |-> "DELAY", resumeAt |-> "later"]
WebhookPause(requestId, handlerId) ==
    [type |-> "WEBHOOK", requestId |-> requestId, handlerId |-> handlerId]
PauseMetadatas ==
    {DelayPause, WebhookPause("abc", OtherHandler), WebhookPause("abc", Undefined),
     WebhookPause("xyz", OtherHandler)}

\* A duration column that was never written (null)
NullDuration == -1

\* getFlowRunOrCreate, no id given: the new in-memory run (columns the code
\* does not set take the entity's defaults when saved)
NewFlowRun(id, projectId, flowId, flowVersionId, environment) ==
    [id |-> id, projectId |-> projectId, flowId |-> flowId,
     flowVersionId |-> flowVersionId, environment |-> environment,
     status |-> Undefined, pauseMetadata |-> NilPM, logsFileId |-> NoId,
     tasks |-> 0, duration |-> NullDuration, tags |-> {}, finishTime |-> Undefined]

\* A load that gives the record with the environment of a resume (PRODUCTION)
findOneBy_Production(id, projectId) ==
    IF id \in DOMAIN runs /\ (projectId = Undefined \/ runs[id].projectId = projectId)
    THEN [runs[id] EXCEPT !.environment = PRODUCTION]
    ELSE NoRun

\* flowRunRepo().findOneBy({id, projectId}): projectId undefined matches any
findOneBy(id, projectId) ==
    IF id \in DOMAIN runs /\ (projectId = Undefined \/ runs[id].projectId = projectId)
    THEN runs[id]
    ELSE NoRun

\* start without the assignment of the status
MarkRunning_Keep(flowRun) == flowRun

\* start: flowRun.status = FlowRunStatus.RUNNING
MarkRunning(flowRun) == [flowRun EXCEPT !.status = RUNNING]

\* flowRunRepo().save(flowRun): insert, or overwrite the row with the entity
SaveRun(flowRun) ==
    [i \in DOMAIN runs \cup {flowRun.id} |-> IF i = flowRun.id THEN flowRun ELSE runs[i]]

\* The update of pause without the pause metadata
PauseUpdate_StatusOnly(id, pauseMetadata) ==
    [i \in DOMAIN runs |-> IF i = id THEN [runs[i] EXCEPT !.status = PAUSED] ELSE runs[i]]

\* flowRunRepo().update(id, partial) for pause(): no row, no change
PauseUpdate(id, pauseMetadata) ==
    [i \in DOMAIN runs |->
        IF i = id
        THEN [runs[i] EXCEPT !.status = PAUSED, !.pauseMetadata = pauseMetadata]
        ELSE runs[i]]

\* flowRunSideEffects.start({flowRun, httpRequestId, payload, synchronousHandlerId,
\* executionType, progressUpdateType}): the job handed to the queue.  via,
\* pauseMetadata and forPause are history: the service method that asked for
\* it, and the pause metadata its addToQueue read, with that pause's number.
Job_NoAffinity(call) ==
    [flowRun |-> call.saved,
     httpRequestId |-> call.sp.httpRequestId,
     payload |-> call.sp.payload,
     synchronousHandlerId |-> ServerId,
     executionType |-> BEGIN,
     progressUpdateType |-> call.sp.progressUpdateType,
     via |-> call.op,
     pauseMetadata |-> call.pauseMetadata,
     forPause |-> call.forPause]

Job(call) ==
    [flowRun |-> call.saved,
     httpRequestId |-> call.sp.httpRequestId,
     payload |-> call.sp.payload,
     synchronousHandlerId |-> call.sp.synchronousHandlerId,
     executionType |-> call.sp.executionType,
     progressUpdateType |-> call.sp.progressUpdateType,
     via |-> call.op,
     pauseMetadata |-> call.pauseMetadata,
     forPause |-> call.forPause]

(***************************************************************************)
(* Execution states and their serialized form.                             *)
(***************************************************************************)
StepNames == {"trigger", "step_1", "step_2"}
StepOutput(name) == [output |-> "out_" \o name]
StepsOf(names) == [n \in names |-> StepOutput(n)]

\* let steps = {}
NoSteps == StepsOf({})

\* The execution states a worker reports: none, a trace of the trigger and one
\* step, and a trace too large to store
ExecutionStates ==
    {NoState, [steps |-> StepsOf({"trigger", "step_1"})], [steps |-> StepsOf(StepNames)]}

\* logSerializer.serialize({executionState}): the bytes of the ExecutioOutputFile
serialize(executionState) == [executionState |-> [steps |-> executionState.steps]]

\* A length that is never over the limit
byteLength_Zero(serializedLogs) == 0

\* serializedLogs.byteLength, in units of one recorded step
byteLength(serializedLogs) == Cardinality(DOMAIN serializedLogs.executionState.steps)

MAX_LOG_SIZE == 2

\* A parse that loses the steps
ParseSteps_Empty(data) == NoSteps

\* JSON.parse(logFile.data.toString('utf-8')).executionState.steps
ParseSteps(data) == data.executionState.steps

\* flowRun.steps[flowVersion.trigger.name]?.output
TriggerOutput(steps, flowVersionId) ==
    IF TriggerName(flowVersionId) \in DOMAIN steps
    THEN steps[TriggerName(flowVersionId)].output
    ELSE Undefined

\* A save that has not written the file when the record is updated
SaveFile_NotYet(fileId, projectId, data) == files

\* fileService.save({fileId, projectId, data, type, compression})
SaveFile(fileId, projectId, data) ==
    [i \in DOMAIN files \cup {fileId} |->
        IF i = fileId THEN [projectId |-> projectId, data |-> data] ELSE files[i]]

\* updateStatus: duration ? Math.floor(Number(duration)) : undefined, with
\* spreadIfDefined; durations are given in half milliseconds
FloorDuration(old, halfMs) == IF halfMs # 0 THEN halfMs \div 2 ELSE old

\* An update that writes logsFileId also when updateLogs gave none
FinishUpdate_ClearsLogs(id, a, logFileId) ==
    [i \in DOMAIN runs |->
        IF i = id
        THEN [runs[i] EXCEPT !.status = a.status, !.tasks = a.tasks,
                             !.duration = FloorDuration(@, a.duration),
                             !.logsFileId = logFileId,
                             !.tags = a.tags, !.finishTime = "now"]
        ELSE runs[i]]

\* updateStatus: flowRunRepo().update(flowRunId, {status, tasks, duration?,
\* logsFileId?, terminationReason: undefined, tags, finishTime})
FinishUpdate(id, a, logFileId) ==
    [i \in DOMAIN runs |->
        IF i = id
        THEN [runs[i] EXCEPT !.status = a.status, !.tasks = a.tasks,
                             !.duration = FloorDuration(@, a.duration),
                             !.logsFileId = IF logFileId = NoId THEN @ ELSE logFileId,
                             !.tags = a.tags, !.finishTime = "now"]
        ELSE runs[i]]

\* The update of flowVersionId left out
VersionUpdate_None(id, flowVersionId) == runs

\* updateFlowRunToLatestFlowVersionIdAndReturnPayload: flowRunRepo().update(
\* flowRunId, {flowVersionId: flowVersion.id})
VersionUpdate(id, flowVersionId) ==
    [i \in DOMAIN runs |->
        IF i = id THEN [runs[i] EXCEPT !.flowVersionId = flowVersionId] ELSE runs[i]]

(***************************************************************************)
(* Calls.                                                                  *)
(***************************************************************************)
NoParams == [flowRunId |-> NoId]

IdleCall ==
    [op |-> "idle", pc |-> "idle", args |-> NoParams, sp |-> NoParams,
     flowRun |-> NoRun, saved |-> NoRun, pauseMetadata |-> NilPM, forPause |-> 0,
     steps |-> NoSteps, payload |-> Undefined, fileId |-> NoId, error |-> "none",
     logged |-> {}, page |-> <<>>]

NewCall(op, pc, args) == [IdleCall EXCEPT !.op = op, !.pc = pc, !.args = args]

StartParams(projectId, flowVersionId, flowRunId, payload, environment, executionType, synchronousHandlerId, httpRequestId, progressUpdateType) ==
    [projectId |-> projectId, flowVersionId |-> flowVersionId,
     flowRunId |-> flowRunId, payload |-> payload, environment |-> environment,
     executionType |-> executionType,
     synchronousHandlerId |-> synchronousHandlerId,
     httpRequestId |-> httpRequestId, progressUpdateType |-> progressUpdateType]

\* A slot is taken from the call to the moment its caller has the result; callers
\* take the lowest free slot (slots are interchangeable)
Free(c) == calls[c].pc = "idle"

\* A finished call returns before anything else happens: returning touches
\* nothing but the call itself, so no interleaving is lost
NoneFinished == \A d \in Slots : calls[d].pc \notin {"done", "failed"}

CanBegin(c) ==
    /\ Free(c)
    /\ NoneFinished
    /\ opCount < MaxOps
    /\ \A d \in Slots : d < c => ~Free(d)

\* Call c is at the await named pc
At(c, pc) == calls[c].pc = pc /\ NoneFinished

\* An error that is dropped: the call ends as if it had returned
Throw_Swallow(call, code) == [call EXCEPT !.pc = "done"]

\* throw new ActivepiecesError({code, params}): the call ends with the error
Throw(call, code) == [call EXCEPT !.pc = "failed", !.error = code]

\* exceptionHandler.handle(errors), logger.error(e, ...): the error reaches the
\* exception sink or the log, and the call goes on
Logged(call, what) == [call EXCEPT !.logged = @ \cup {what}]

Init ==
    /\ runs = <<>>
    /\ files = <<>>
    /\ queue = <<>>
    /\ calls = [c \in Slots |-> IdleCall]
    /\ nextRunId = 1
    /\ nextFileId = 1
    /\ opCount = 0
    /\ pauseSeq = [i \in 1..(MaxRuns + 1) |-> 0]

(***************************************************************************)
(* flowRunService.start                                                    *)
(***************************************************************************)
\* start, to getFlowRunOrCreate: the flow version, the flow of the given
\* project, and the run (loaded, or made with a fresh id)
StartLoadWith(c, call) ==
    LET sp == call.sp
        flowId == FlowOfVersion(sp.flowVersionId)
        flowProjectId == ProjectOfFlow(flowId)
    IN  IF flowProjectId # sp.projectId
        THEN /\ calls' = [calls EXCEPT ![c] = Throw(call, "FLOW_NOT_FOUND")]
             /\ UNCHANGED nextRunId
        ELSE IF sp.flowRunId # NoId
        THEN /\ IF isNilRun(findOneBy(sp.flowRunId, flowProjectId))
                THEN calls' = [calls EXCEPT ![c] = Throw(call, "FLOW_RUN_NOT_FOUND")]
                ELSE calls' = [calls EXCEPT ![c] =
                        [call EXCEPT !.pc = "save",
                                     !.flowRun = findOneBy(sp.flowRunId, flowProjectId)]]
             /\ UNCHANGED nextRunId
        ELSE /\ calls' = [calls EXCEPT ![c] =
                   [call EXCEPT !.pc = "save",
                                !.flowRun = NewFlowRun(nextRunId, flowProjectId, flowId,
                                                sp.flowVersionId, sp.environment)]]
             /\ nextRunId' = nextRunId + 1

\* A caller invokes start (directly: a trigger's run, a timer's resume)
CallStart(c) ==
    /\ CanBegin(c)
    /\ \E req \in StartRequests, flowRunId \in DOMAIN runs \cup {NoId, MaxRuns + 1} :
        /\ flowRunId = NoId => nextRunId <= MaxRuns
        /\ StartLoadWith(c, [NewCall("start", "start", NoParams) EXCEPT !.sp =
                  StartParams(req.projectId, req.flowVersionId, flowRunId, "payload",
                              req.environment, req.executionType,
                              req.synchronousHandlerId, Undefined, "NONE")])
    /\ opCount' = opCount + 1
    /\ UNCHANGED <<runs, files, queue, nextFileId, pauseSeq>>

\* start called by addToQueue
StartLoad(c) ==
    /\ At(c, "start")
    /\ StartLoadWith(c, calls[c])
    /\ UNCHANGED <<runs, files, queue, nextFileId, opCount, pauseSeq>>

\* start: flowRun.status = RUNNING; savedFlowRun = await flowRunRepo().save(flowRun)
StartSave(c) ==
    /\ At(c, "save")
    /\ runs' = SaveRun(MarkRunning(calls[c].flowRun))
    /\ calls' = [calls EXCEPT ![c].pc = "enqueue",
                              ![c].saved = MarkRunning(calls[c].flowRun)]
    /\ UNCHANGED <<files, queue, nextRunId, nextFileId, opCount, pauseSeq>>

\* start: flowRunSideEffects.start(...); return savedFlowRun
StartEnqueue(c) ==
    /\ At(c, "enqueue")
    /\ queue' = Append(queue, Job(calls[c]))
    /\ calls' = [calls EXCEPT ![c].pc = "done"]
    /\ UNCHANGED <<runs, files, nextRunId, nextFileId, opCount, pauseSeq>>

(***************************************************************************)
(* flowRunService.pause                                                    *)
(***************************************************************************)
\* pause: await flowRunRepo().update(flowRunId, {status: PAUSED, pauseMetadata})
CallPause(c) ==
    /\ CanBegin(c)
    /\ \E flowRunId \in DOMAIN runs, pauseMetadata \in PauseMetadatas :
        /\ runs' = PauseUpdate(flowRunId, pauseMetadata)
        /\ pauseSeq' = [pauseSeq EXCEPT ![flowRunId] = @ + 1]
        /\ calls' = [calls EXCEPT ![c] =
              NewCall("pause", "pause_notify",
                      [flowRunId |-> flowRunId, pauseMetadata |-> pauseMetadata])]
    /\ opCount' = opCount + 1
    /\ UNCHANGED <<files, queue, nextRunId, nextFileId>>

\* pause: findOneByOrFail({id}); flowRunSideEffects.pause({flowRun})
PauseNotify(c) ==
    /\ At(c, "pause_notify")
    /\ IF isNilRun(findOneBy(calls[c].args.flowRunId, Undefined))
       THEN calls' = [calls EXCEPT ![c] = Throw(calls[c], "ENTITY_NOT_FOUND")]
       ELSE calls' = [calls EXCEPT ![c].pc = "done",
                         ![c].flowRun = findOneBy(calls[c].args.flowRunId, Undefined)]
    /\ UNCHANGED <<runs, files, queue, nextRunId, nextFileId, opCount, pauseSeq>>

(***************************************************************************)
(* flowRunService.addToQueue                                               *)
(***************************************************************************)
\* addToQueue: findOneBy({id}); matchRequestId; the call of start
AddToQueueLoad(c, call) ==
    LET a == call.args
        flowRunToResume == findOneBy(a.flowRunId, Undefined)
        pauseMetadata == flowRunToResume.pauseMetadata
    IN  IF isNilRun(flowRunToResume)
        THEN calls' = [calls EXCEPT ![c] = Throw(call, "FLOW_RUN_NOT_FOUND")]
        ELSE IF matchRequestId(pauseMetadata, a.requestId)
        THEN calls' = [calls EXCEPT ![c] = [call EXCEPT !.pc = "start",
                 !.pauseMetadata = pauseMetadata,
                 !.forPause = IF isNilPause(pauseMetadata) THEN 0 ELSE pauseSeq[a.flowRunId],
                 !.sp = StartParams(flowRunToResume.projectId,
                               flowRunToResume.flowVersionId, flowRunToResume.id,
                               a.payload, PRODUCTION, a.executionType,
                               returnHandlerId(pauseMetadata, a.requestId),
                               a.requestId, a.progressUpdateType)]]
        ELSE calls' = [calls EXCEPT ![c] = [call EXCEPT !.pc = "done",
                 !.pauseMetadata = pauseMetadata]]

\* A caller invokes addToQueue (a webhook callback resuming a paused run)
CallAddToQueue(c) ==
    /\ CanBegin(c)
    /\ \E flowRunId \in DOMAIN runs \cup {MaxRuns + 1},
          requestId \in RequestIds \cup {Undefined} :
          AddToQueueLoad(c, NewCall("addToQueue", "addToQueue",
                      [flowRunId |-> flowRunId, payload |-> "resumePayload",
                       requestId |-> requestId, progressUpdateType |-> "NONE",
                       executionType |-> RESUME]))
    /\ opCount' = opCount + 1
    /\ UNCHANGED <<runs, files, queue, nextRunId, nextFileId, pauseSeq>>

(***************************************************************************)
(* flowRunService.test                                                     *)
(***************************************************************************)
\* test: start with the trigger's sample data, environment TESTING
CallTest(c) ==
    /\ CanBegin(c)
    /\ nextRunId <= MaxRuns
    /\ \E req \in {r \in StartRequests : r.executionType = BEGIN} :
          StartLoadWith(c, [NewCall("test", "start", NoParams) EXCEPT !.sp =
                  StartParams(req.projectId, req.flowVersionId, NoId, "sampleData",
                              TESTING, BEGIN, ServerId, Undefined, "TEST_FLOW")])
    /\ opCount' = opCount + 1
    /\ UNCHANGED <<runs, files, queue, nextFileId, pauseSeq>>

(***************************************************************************)
(* flowRunService.getOnePopulatedOrThrow, as updateStatus and retry use it *)
(***************************************************************************)
\* What follows getOnePopulatedOrThrow in the caller
AfterPopulate(call) == IF call.op = "retry" THEN "retry_update" ELSE "done"

\* getOneOrThrow({id, projectId: undefined}); let steps = {}
PopulateLoad(c, call) ==
    LET flowRun == findOneBy(call.args.flowRunId, Undefined)
    IN  IF isNilRun(flowRun)
        THEN calls' = [calls EXCEPT ![c] = Throw(call, "FLOW_RUN_NOT_FOUND")]
        ELSE IF flowRun.logsFileId # NoId
        THEN calls' = [calls EXCEPT ![c] =
                 [call EXCEPT !.pc = "populate_file", !.flowRun = flowRun]]
        ELSE calls' = [calls EXCEPT ![c] =
                 [call EXCEPT !.pc = AfterPopulate(call), !.flowRun = flowRun,
                              !.steps = NoSteps]]

\* fileService.getOneOrThrow({fileId, projectId}); steps = the parsed file's steps
PopulateFile(c) ==
    /\ At(c, "populate_file")
    /\ LET fileId == calls[c].flowRun.logsFileId
       IN  IF fileId \in DOMAIN files /\ files[fileId].projectId = calls[c].flowRun.projectId
           THEN calls' = [calls EXCEPT ![c].pc = AfterPopulate(calls[c]),
                                       ![c].steps = ParseSteps(files[fileId].data)]
           ELSE calls' = [calls EXCEPT ![c] = Throw(calls[c], "FILE_NOT_FOUND")]
    /\ UNCHANGED <<runs, files, queue, nextRunId, nextFileId, opCount, pauseSeq>>

(***************************************************************************)
(* flowRunService.updateStatus and updateLogs                              *)
(***************************************************************************)
\* updateStatus: flowRunRepo().update(...), then the read of getOnePopulatedOrThrow
\* is the next step
FinishSave(c, call, logFileId) ==
    /\ runs' = FinishUpdate(call.args.flowRunId, call.args, logFileId)
    /\ calls' = [calls EXCEPT ![c] = [call EXCEPT !.pc = "populate"]]

\* A worker reports a run's outcome.  updateLogs with no execution state
\* returns at once and the record is updated; otherwise updateLogs loads the run,
\* serializes, checks the size and picks the file id.
CallUpdateStatus(c) ==
    /\ CanBegin(c)
    /\ \E flowRunId \in DOMAIN runs \cup {MaxRuns + 1},
          status \in {SUCCEEDED, FAILED},
          executionState \in ExecutionStates,
          duration \in {0, 3} :
        LET call == NewCall("updateStatus", "updateLogs",
                        [flowRunId |-> flowRunId, status |-> status, tasks |-> 1,
                         executionState |-> executionState, tags |-> {"tag"},
                         projectId |-> IF flowRunId \in DOMAIN runs
                                       THEN runs[flowRunId].projectId ELSE "p1",
                         duration |-> duration])
            flowRun == findOneBy(flowRunId, Undefined)
        IN  IF executionState = NoState
            THEN /\ FinishSave(c, call, NoId)
                 /\ UNCHANGED nextFileId
            ELSE IF isNilRun(flowRun)
            THEN /\ calls' = [calls EXCEPT ![c] = Throw(call, "ENTITY_NOT_FOUND")]
                 /\ UNCHANGED <<runs, nextFileId>>
            ELSE IF byteLength(serialize(executionState)) > MAX_LOG_SIZE
            THEN /\ calls' = [calls EXCEPT ![c] =
                        Throw(Logged(call, "LOG_TOO_LARGE"), "LOG_TOO_LARGE")]
                 /\ UNCHANGED <<runs, nextFileId>>
            ELSE IF flowRun.logsFileId # NoId
            THEN /\ calls' = [calls EXCEPT ![c] =
                        [call EXCEPT !.pc = "save_logs", !.fileId = flowRun.logsFileId]]
                 /\ UNCHANGED <<runs, nextFileId>>
            ELSE /\ calls' = [calls EXCEPT ![c] =
                        [call EXCEPT !.pc = "save_logs", !.fileId = nextFileId]]
                 /\ nextFileId' = nextFileId + 1
                 /\ UNCHANGED runs
    /\ opCount' = opCount + 1
    /\ UNCHANGED <<files, queue, nextRunId, pauseSeq>>

\* updateLogs: await fileService.save(...); return fileId
UpdateLogsSave(c) ==
    /\ At(c, "save_logs")
    /\ files' = SaveFile(calls[c].fileId, calls[c].args.projectId,
                         serialize(calls[c].args.executionState))
    /\ calls' = [calls EXCEPT ![c].pc = "finish_update"]
    /\ UNCHANGED <<runs, queue, nextRunId, nextFileId, opCount, pauseSeq>>

\* updateStatus: the update of the record, after updateLogs saved a file
UpdateStatusSave(c) ==
    /\ At(c, "finish_update")
    /\ FinishSave(c, calls[c], calls[c].fileId)
    /\ UNCHANGED <<files, queue, nextRunId, nextFileId, opCount, pauseSeq>>

\* updateStatus: getOnePopulatedOrThrow; flowRunSideEffects.finish({flowRun})
\* follows once the run is populated
UpdateStatusPopulate(c) ==
    /\ At(c, "populate")
    /\ PopulateLoad(c, calls[c])
    /\ UNCHANGED <<runs, files, queue, nextRunId, nextFileId, opCount, pauseSeq>>

(***************************************************************************)
(* flowRunService.retry                                                    *)
(***************************************************************************)
\* The arguments retry hands to addToQueue
RetryArgs(flowRunId, strategy, payload) ==
    [flowRunId |-> flowRunId, strategy |-> strategy, payload |-> payload,
     requestId |-> Undefined, progressUpdateType |-> "NONE",
     executionType |-> IF strategy = FROM_FAILED_STEP THEN RESUME ELSE BEGIN]

\* retry: FROM_FAILED_STEP calls addToQueue; ON_LATEST_VERSION first loads the
\* populated run
CallRetry(c) ==
    /\ CanBegin(c)
    /\ \E flowRunId \in DOMAIN runs \cup {MaxRuns + 1},
          strategy \in {FROM_FAILED_STEP, ON_LATEST_VERSION} :
          IF strategy = FROM_FAILED_STEP
          THEN AddToQueueLoad(c, NewCall("retry", "addToQueue",
                                 RetryArgs(flowRunId, strategy, Undefined)))
          ELSE PopulateLoad(c, NewCall("retry", "populate",
                               RetryArgs(flowRunId, strategy, Undefined)))
    /\ opCount' = opCount + 1
    /\ UNCHANGED <<runs, files, queue, nextRunId, nextFileId, pauseSeq>>

\* updateFlowRunToLatestFlowVersionIdAndReturnPayload: the latest locked version,
\* the update of flowVersionId, the trigger's recorded output
RetryUpdate(c) ==
    /\ At(c, "retry_update")
    /\ LET flowVersionId == LatestLockedVersion(calls[c].flowRun.flowId)
       IN  /\ runs' = VersionUpdate(calls[c].args.flowRunId, flowVersionId)
           /\ calls' = [calls EXCEPT ![c].pc = "addToQueue",
                 ![c].args = RetryArgs(calls[c].args.flowRunId, calls[c].args.strategy,
                                       TriggerOutput(calls[c].steps, flowVersionId))]
    /\ UNCHANGED <<files, queue, nextRunId, nextFileId, opCount, pauseSeq>>

\* retry's call of addToQueue, after the update
RetryAddToQueue(c) ==
    /\ calls[c].pc = "addToQueue"
    /\ AddToQueueLoad(c, calls[c])
    /\ UNCHANGED <<runs, files, queue, nextRunId, nextFileId, opCount, pauseSeq>>

Work(c) ==
    \/ CallStart(c)
    \/ StartLoad(c)
    \/ StartSave(c)
    \/ StartEnqueue(c)
    \/ CallPause(c)
    \/ PauseNotify(c)
    \/ CallAddToQueue(c)
    \/ CallTest(c)
    \/ CallUpdateStatus(c)
    \/ UpdateLogsSave(c)
    \/ UpdateStatusSave(c)
    \/ UpdateStatusPopulate(c)
    \/ PopulateFile(c)
    \/ CallRetry(c)
    \/ RetryUpdate(c)
    \/ RetryAddToQueue(c)

\* The caller receives the result (or the error) of a finished call
Return(c) ==
    /\ calls[c].pc \in {"done", "failed"}
    /\ calls' = [calls EXCEPT ![c] = IdleCall]
    /\ UNCHANGED <<runs, files, queue, nextRunId, nextFileId, opCount, pauseSeq>>

Step(c) == Return(c) \/ Work(c)

\* Calls made one after the other: every handler runs to its end
Next == Step(1)

Spec == Init /\ [][Next]_vars

\* Concurrent callers of start, pause and addToQueue: the handlers interleave
\* at their awaits
Resume(c) ==
    \/ CallStart(c)
    \/ StartLoad(c)
    \/ StartSave(c)
    \/ StartEnqueue(c)
    \/ CallPause(c)
    \/ PauseNotify(c)
    \/ CallAddToQueue(c)
    \/ Return(c)

NextResume == \E c \in Slots : Resume(c)

SpecResume == Init /\ [][NextResume]_vars

\* Concurrent workers reporting outcomes: updateStatus calls interleave at
\* their awaits
Finish(c) ==
    \/ CallStart(c)
    \/ StartSave(c)
    \/ StartEnqueue(c)
    \/ CallUpdateStatus(c)
    \/ UpdateLogsSave(c)
    \/ UpdateStatusSave(c)
    \/ UpdateStatusPopulate(c)
    \/ PopulateFile(c)
    \/ Return(c)

NextFinish == \E c \in Slots : Finish(c)

SpecFinish == Init /\ [][NextFinish]_vars

(***************************************************************************)
(* flowRunService.list                                                     *)
(***************************************************************************)
\* An optional array filter: not given, or given with its values (an empty
\* array is given)
NotGiven == [given |-> FALSE, values |-> {}]
Given(values) == [given |-> TRUE, values |-> values]

\* flow_run.created: the time of the insert, in the order of the inserts
Created(flowRun) == flowRun.id

\* ListParams; createdAfter, createdBefore and the cursor are times, 0 for none
ListParams(projectId, flowId, status, tags, createdAfter, createdBefore, cursor, limit) ==
    [projectId |-> projectId, flowId |-> flowId, status |-> status, tags |-> tags,
     createdAfter |-> createdAfter, createdBefore |-> createdBefore,
     cursor |-> cursor, limit |-> limit]

\* Every combination of the filters of the query (the cursor and the limit are
\* the paginator's)
AllListParams ==
    {ListParams(projectId, flowId, status, tags, createdAfter, createdBefore, 0, 2) :
        projectId \in Projects,
        flowId \in {NotGiven, Given({"f1", "f2"})},
        status \in {NotGiven, Given({PAUSED, FAILED, SUCCEEDED})},
        tags \in {NotGiven, Given({"tag"})},
        createdAfter \in {0, 2}, createdBefore \in {0, 1}}

\* The list calls the callers make
ListRequests ==
    {ListParams("p1", NotGiven, NotGiven, NotGiven, 0, 0, 0, 2),
     ListParams("p2", NotGiven, NotGiven, NotGiven, 0, 0, 0, 2),
     ListParams("p1", Given({"f1"}), Given({RUNNING}), NotGiven, 0, 0, 0, 1),
     ListParams("p1", NotGiven, Given({PAUSED, FAILED, SUCCEEDED}), Given({"tag"}), 0, 0, 0, 2),
     ListParams("p1", NotGiven, NotGiven, NotGiven, 0, 0, 2, 2),
     ListParams("p1", Given({"f1", "f2"}), NotGiven, NotGiven, 2, 0, 0, 2)}

\* APArrayContains('tags', tags, query): the row's tags contain one of the given
APArrayContains(rowTags, tags) == rowTags \cap tags # {}

\* list without the condition on the environment
Where_AnyEnvironment(flowRun, params) ==
    /\ flowRun.projectId = params.projectId
    /\ params.flowId.given => flowRun.flowId \in params.flowId.values
    /\ params.status.given => flowRun.status \in params.status.values
    /\ params.createdAfter # 0 => Created(flowRun) >= params.createdAfter
    /\ params.createdBefore # 0 => Created(flowRun) <= params.createdBefore
    /\ params.tags.given => APArrayContains(flowRun.tags, params.tags.values)

\* list: where({projectId, environment: PRODUCTION}) and the andWhere of each
\* filter that is given
Where(flowRun, params) ==
    /\ flowRun.projectId = params.projectId
    /\ flowRun.environment = PRODUCTION
    /\ params.flowId.given => flowRun.flowId \in params.flowId.values
    /\ params.status.given => flowRun.status \in params.status.values
    /\ params.createdAfter # 0 => Created(flowRun) >= params.createdAfter
    /\ params.createdBefore # 0 => Created(flowRun) <= params.createdBefore
    /\ params.tags.given => APArrayContains(flowRun.tags, params.tags.values)

\* Order.DESC on created
RECURSIVE Descending(_)
Descending(rows) ==
    IF rows = {}
    THEN <<>>
    ELSE LET newest == CHOOSE r \in rows : \A o \in rows : Created(o) <= Created(r)
         IN  <<newest>> \o Descending(rows \ {newest})

\* paginator.paginate(query): the rows after the cursor, newest first, limit of them
paginate(rows, cursor, limit) ==
    LET after == {r \in rows : cursor = 0 \/ Created(r) < cursor}
        sorted == Descending(after)
    IN  SubSeq(sorted, 1, IF Len(sorted) < limit THEN Len(sorted) ELSE limit)

\* list(params): the page's data
list(params) ==
    paginate({runs[id] : id \in {i \in DOMAIN runs : Where(runs[i], params)}},
             params.cursor, params.limit)

CallList(c) ==
    /\ CanBegin(c)
    /\ \E params \in ListRequests :
          calls' = [calls EXCEPT ![c] =
                       [NewCall("list", "done", params) EXCEPT !.page = list(params)]]
    /\ opCount' = opCount + 1
    /\ UNCHANGED <<runs, files, queue, nextRunId, nextFileId, pauseSeq>>

\* Runs are made, tested, paused and finished, and listed in between
Listing(c) ==
    \/ CallStart(c)
    \/ CallTest(c)
    \/ StartSave(c)
    \/ StartEnqueue(c)
    \/ CallPause(c)
    \/ PauseNotify(c)
    \/ CallUpdateStatus(c)
    \/ UpdateLogsSave(c)
    \/ UpdateStatusSave(c)
    \/ UpdateStatusPopulate(c)
    \/ PopulateFile(c)
    \/ CallList(c)
    \/ Return(c)

NextList == Listing(1)

SpecList == Init /\ [][NextList]_vars

(***************************************************************************)
(* Failures of the telemetry event and of the side effects                 *)
(***************************************************************************)
\* A catch handler that logs and throws again
TelemetryCatch_Rethrow(call) == Throw(Logged(call, "TELEMETRY_FAILED"), "TELEMETRY_FAILED")

\* start: telemetry.trackProject(...).catch((e) => logger.error(e, ...))
TelemetryCatch(call) == Logged(call, "TELEMETRY_FAILED")

\* start: the save, with a telemetry event that fails: the promise is not
\* awaited and its rejection goes to the catch handler
StartSaveTelemetryFails(c) ==
    /\ At(c, "save")
    /\ runs' = SaveRun(MarkRunning(calls[c].flowRun))
    /\ calls' = [calls EXCEPT ![c] =
                    TelemetryCatch([calls[c] EXCEPT !.pc = "enqueue",
                                        !.saved = MarkRunning(calls[c].flowRun)])]
    /\ UNCHANGED <<files, queue, nextRunId, nextFileId, opCount, pauseSeq>>

\* Runs are started, tested, paused and resumed, and telemetry may fail
Telemetry(c) ==
    \/ CallStart(c)
    \/ CallTest(c)
    \/ StartLoad(c)
    \/ StartSave(c)
    \/ StartSaveTelemetryFails(c)
    \/ StartEnqueue(c)
    \/ CallPause(c)
    \/ PauseNotify(c)
    \/ CallAddToQueue(c)
    \/ Return(c)

NextTelemetry == Telemetry(1)

SpecTelemetry == Init /\ [][NextTelemetry]_vars

\* await flowRunSideEffects.start / pause / finish(...) with a side effect that
\* rejects: the await throws inside the service method, which has no handler
SideEffectRejects(call) == Throw(call, "SIDE_EFFECT_FAILED")

\* start: flowRunSideEffects.start fails; no job is in the queue
StartEnqueueFails(c) ==
    /\ At(c, "enqueue")
    /\ calls' = [calls EXCEPT ![c] = SideEffectRejects(calls[c])]
    /\ UNCHANGED <<runs, files, queue, nextRunId, nextFileId, opCount, pauseSeq>>

\* pause: findOneByOrFail gives the run, flowRunSideEffects.pause fails
PauseNotifyFails(c) ==
    /\ At(c, "pause_notify")
    /\ ~isNilRun(findOneBy(calls[c].args.flowRunId, Undefined))
    /\ calls' = [calls EXCEPT ![c] =
          SideEffectRejects([calls[c] EXCEPT
              !.flowRun = findOneBy(calls[c].args.flowRunId, Undefined)])]
    /\ UNCHANGED <<runs, files, queue, nextRunId, nextFileId, opCount, pauseSeq>>

\* updateStatus: getOnePopulatedOrThrow gives the run (its last read being the
\* record without a file, or the file), flowRunSideEffects.finish fails
FinishNotifyFails(c) ==
    /\ calls[c].op = "updateStatus"
    /\ LET flowRun == findOneBy(calls[c].args.flowRunId, Undefined)
       IN  \/ /\ At(c, "populate")
              /\ ~isNilRun(flowRun)
              /\ flowRun.logsFileId = NoId
              /\ calls' = [calls EXCEPT ![c] =
                    SideEffectRejects([calls[c] EXCEPT !.flowRun = flowRun,
                                                       !.steps = NoSteps])]
           \/ /\ At(c, "populate_file")
              /\ calls[c].flowRun.logsFileId \in DOMAIN files
              /\ files[calls[c].flowRun.logsFileId].projectId = calls[c].flowRun.projectId
              /\ calls' = [calls EXCEPT ![c] =
                    SideEffectRejects([calls[c] EXCEPT
                        !.steps = ParseSteps(files[calls[c].flowRun.logsFileId].data)])]
    /\ UNCHANGED <<runs, files, queue, nextRunId, nextFileId, opCount, pauseSeq>>

\* Runs are started, paused and finished, and the side effects may fail
SideEffects(c) ==
    \/ CallStart(c)
    \/ StartSave(c)
    \/ StartEnqueue(c)
    \/ StartEnqueueFails(c)
    \/ CallPause(c)
    \/ PauseNotify(c)
    \/ PauseNotifyFails(c)
    \/ CallUpdateStatus(c)
    \/ UpdateLogsSave(c)
    \/ UpdateStatusSave(c)
    \/ UpdateStatusPopulate(c)
    \/ PopulateFile(c)
    \/ FinishNotifyFails(c)
    \/ Return(c)

NextSideEffects == SideEffects(1)

SpecSideEffects == Init /\ [][NextSideEffects]_vars

(***************************************************************************)
(* triggerHelper.executeTrigger                                            *)
(***************************************************************************)
\* The context calls one routine makes, at most
MaxContextCalls == 2

ON_ENABLE == "ON_ENABLE"
ON_DISABLE == "ON_DISABLE"
RENEW == "RENEW"
HANDSHAKE == "HANDSHAKE"
TEST == "TEST"
RUN == "RUN"
HookTypes == {ON_ENABLE, ON_DISABLE, RENEW, HANDSHAKE, TEST, RUN}

POLLING == "POLLING"
WEBHOOK == "WEBHOOK"
APP_WEBHOOK == "APP_WEBHOOK"

PieceName == "piece"

\* The triggers of the piece, by name, and the names a flow version may carry
TriggerNames == {"poll", "hook", "app_hook"}
TriggerNameInputs == TriggerNames \cup {"gone", Undefined}

\* piece.getTrigger(triggerName).type
TriggerType(triggerName) ==
    IF triggerName = "poll" THEN POLLING
    ELSE IF triggerName = "hook" THEN WEBHOOK ELSE APP_WEBHOOK

\* The routine executeTrigger invokes for a hook type
RoutineOf(hookType) ==
    IF hookType = ON_ENABLE THEN "onEnable"
    ELSE IF hookType = ON_DISABLE THEN "onDisable"
    ELSE IF hookType = RENEW THEN "onRenew"
    ELSE IF hookType = HANDSHAKE THEN "onHandshake"
    ELSE IF hookType = TEST THEN "test" ELSE "run"

\* A validation that finds no error in any input
Validate_NoErrors(input) == [field \in {} |-> "reason"]

\* applyProcessorsAndValidators(resolvedInput, trigger.props, piece.auth).errors
NoErrors == [field \in {} |-> "reason"]
Validate(input) ==
    IF input = "invalid" THEN [field \in {"channel"} |-> "required"] ELSE NoErrors
Inputs == {"valid", "invalid"}

\* What piece.events?.verify(...) does: gives true or false, throws, or is not
\* there (the piece has no events)
VerifyOutcomes == {"true", "false", "throws", "absent"}

\* isValidCron(cronExpression)
isValidCron(cronExpression) == cronExpression \in {"0 * * * *", "*/5 * * * *"}

\* The ScheduleOptions a routine hands to setSchedule; timezone and failureCount
\* are optional
ScheduleRequests ==
    {[cronExpression |-> "0 * * * *"],
     [cronExpression |-> "*/5 * * * *", timezone |-> "Europe/Paris", failureCount |-> 3],
     [cronExpression |-> "not-a-cron", timezone |-> "Europe/Paris"]}

\* let scheduleOptions: ScheduleOptions | undefined = undefined
NoSchedule == [none |-> TRUE]

\* A schedule that keeps only the cron expression
NewSchedule_NoDefaults(request) == [cronExpression |-> request.cronExpression]

\* setSchedule: scheduleOptions = {cronExpression, timezone ?? 'UTC', failureCount ?? 0}
NewSchedule(request) ==
    [cronExpression |-> request.cronExpression,
     timezone |-> IF "timezone" \in DOMAIN request THEN request.timezone ELSE "UTC",
     failureCount |-> IF "failureCount" \in DOMAIN request THEN request.failureCount ELSE 0]

\* The Listener values a routine hands to app.createListeners
Listeners ==
    {[events |-> <<"message">>, identifierKey |-> "team", identifierValue |-> "t1"],
     [events |-> <<"reaction">>, identifierKey |-> "team", identifierValue |-> "t2"]}

\* What a routine returns: sequences of items, and values that are no array
Arrays == {<<>>, <<"a", "b">>, <<"b", "a">>}
ReturnValues ==
    {[typeof |-> "object", isArray |-> TRUE, items |-> a] : a \in Arrays}
    \cup {[typeof |-> "object", isArray |-> FALSE, items |-> <<>>],
          [typeof |-> "undefined", isArray |-> FALSE, items |-> <<>>]}

\* What a routine throws: an Error, or an object that JSON.stringify cannot
\* serialize (one that refers to itself)
ThrownValues ==
    {[name |-> "Error", serializable |-> TRUE], [name |-> "HttpError", serializable |-> FALSE]}

\* JSON.stringify(e) of a thrown value that can be serialized
stringify(e) == "{}"

NoResult == [none |-> TRUE]
NoError == [code |-> "none"]
NoValue == [none |-> TRUE]

\* ExecuteTriggerOperation, with the piece's behaviour on verify
TriggerParams(hookType, triggerName, input, appWebhookUrl, webhookSecret, verify) ==
    [hookType |-> hookType, triggerName |-> triggerName, input |-> input,
     appWebhookUrl |-> appWebhookUrl, webhookSecret |-> webhookSecret, verify |-> verify]

\* The local variables of an executeTrigger call; invoked, created, requested,
\* scheduled, rejected and contextError are history: the routines called, the
\* listeners handed to createListeners, the requests handed to setSchedule, how
\* many of these returned and how many threw, the last error thrown, and the
\* value the routine returned
IdleTrigger ==
    [op |-> "idle", pc |-> "idle",
     params |-> TriggerParams(RUN, Undefined, "valid", Undefined, Undefined, "absent"),
     appListeners |-> <<>>, scheduleOptions |-> NoSchedule,
     result |-> NoResult, error |-> NoError,
     invoked |-> <<>>, created |-> <<>>, requested |-> <<>>, scheduled |-> 0,
     rejected |-> 0, contextError |-> NoError, returned |-> NoValue]

InitTrigger ==
    /\ runs = <<>>
    /\ files = <<>>
    /\ queue = <<>>
    /\ calls = [c \in Slots |-> IdleTrigger]
    /\ nextRunId = 1
    /\ nextFileId = 1
    /\ opCount = 0
    /\ pauseSeq = [i \in 1..(MaxRuns + 1) |-> 0]

\* The call ends with a thrown error
Fails(call, error) == [call EXCEPT !.pc = "failed", !.error = error]

\* The call ends with a returned response
Responds(call, result) == [call EXCEPT !.pc = "done", !.result = result]

\* The call awaits a routine of the trigger
Invokes(call, names) == [call EXCEPT !.pc = "routine", !.invoked = @ \o names]

\* A RUN on an APP_WEBHOOK trigger that ignores what the verification gives
VerifyAppWebhook_Unverified(call) ==
    IF ~Truthy(call.params.appWebhookUrl)
    THEN Fails(call, [code |-> "APP_WEBHOOK_URL_MISSING", pieceName |-> PieceName])
    ELSE IF ~Truthy(call.params.webhookSecret)
    THEN Fails(call, [code |-> "WEBHOOK_SECRET_MISSING", pieceName |-> PieceName])
    ELSE Invokes(call, <<"verify", "run">>)

\* RUN on an APP_WEBHOOK trigger: the two checks and the verification
VerifyAppWebhook(call) ==
    LET p == call.params
    IN  IF ~Truthy(p.appWebhookUrl)
        THEN Fails(call, [code |-> "APP_WEBHOOK_URL_MISSING", pieceName |-> PieceName])
        ELSE IF ~Truthy(p.webhookSecret)
        THEN Fails(call, [code |-> "WEBHOOK_SECRET_MISSING", pieceName |-> PieceName])
        ELSE IF p.verify = "absent"
        THEN Invokes(call, <<"run">>)
        ELSE IF p.verify = "false"
        THEN Responds([call EXCEPT !.invoked = @ \o <<"verify">>],
                 [success |-> FALSE, message |-> "Webhook is not verified", output |-> <<>>])
        ELSE IF p.verify = "throws"
        THEN Responds([call EXCEPT !.invoked = @ \o <<"verify">>],
                 [success |-> FALSE, message |-> "Error while verifying webhook",
                  output |-> <<>>])
        ELSE Invokes(call, <<"verify", "run">>)

\* A switch that goes to the routine of the hook with no check before it
Dispatch_Unchecked(call) == Invokes(call, <<RoutineOf(call.params.hookType)>>)

\* switch (params.hookType), to the await of the routine
Dispatch(call) ==
    LET p == call.params
        type == TriggerType(p.triggerName)
    IN  IF p.hookType = RENEW /\ type # WEBHOOK
        THEN Fails(call, [code |-> "ASSERT_EQUAL", field |-> "triggerType",
                          expected |-> WEBHOOK, actual |-> type])
        ELSE IF p.hookType = RUN /\ type = APP_WEBHOOK
        THEN VerifyAppWebhook(call)
        ELSE Invokes(call, <<RoutineOf(p.hookType)>>)

\* executeTrigger, from the call to the routine of the hook (or to the error or
\* the response that comes before it)
ExecuteTrigger(c) ==
    /\ calls[c].pc = "idle"
    /\ \E hookType \in HookTypes, triggerName \in TriggerNameInputs, input \in Inputs,
          appWebhookUrl \in {Undefined, "url"}, webhookSecret \in {Undefined, "", "secret"},
          verify \in VerifyOutcomes :
        LET call == [IdleTrigger EXCEPT !.op = "executeTrigger", !.params =
                        TriggerParams(hookType, triggerName, input, appWebhookUrl,
                                      webhookSecret, verify)]
        IN  calls' = [calls EXCEPT ![c] =
                IF triggerName = Undefined
                THEN Fails(call, [code |-> "TRIGGER_NAME_REQUIRED"])
                ELSE IF triggerName \notin TriggerNames
                THEN Fails(call, [code |-> "TRIGGER_NOT_FOUND", pieceName |-> PieceName,
                                  triggerName |-> triggerName])
                ELSE IF DOMAIN Validate(input) # {}
                THEN Fails(call, [code |-> "VALIDATION", errors |-> Validate(input)])
                ELSE Dispatch(call)]
    /\ UNCHANGED <<runs, files, queue, nextRunId, nextFileId, opCount, pauseSeq>>

\* The routine is running and may call the context once more
InRoutine(c) ==
    /\ calls[c].op = "executeTrigger"
    /\ calls[c].pc = "routine"

MayCallContext(c) ==
    /\ InRoutine(c)
    /\ Len(calls[c].created) + calls[c].scheduled + calls[c].rejected < MaxContextCalls

\* A createListeners that puts the listener at the head
createListeners_Unshift(appListeners, listener) == <<listener>> \o appListeners

\* appListeners.push({events, identifierValue, identifierKey})
createListeners(appListeners, listener) ==
    Append(appListeners, [events |-> listener.events,
                          identifierValue |-> listener.identifierValue,
                          identifierKey |-> listener.identifierKey])

\* context.app.createListeners({events, identifierKey, identifierValue})
ContextCreateListeners(c) ==
    /\ MayCallContext(c)
    /\ \E listener \in Listeners :
          calls' = [calls EXCEPT ![c].appListeners = createListeners(@, listener),
                                 ![c].created = Append(@, listener)]
    /\ UNCHANGED <<runs, files, queue, nextRunId, nextFileId, opCount, pauseSeq>>

\* context.setSchedule(request): throws into the routine on a cron expression
\* that is not valid, else sets scheduleOptions
ContextSetSchedule(c) ==
    /\ MayCallContext(c)
    /\ \E request \in ScheduleRequests :
          IF ~isValidCron(request.cronExpression)
          THEN calls' = [calls EXCEPT ![c].requested = Append(@, request),
                                      ![c].rejected = @ + 1,
                                      ![c].contextError =
                                          [code |-> "INVALID_CRON",
                                           cronExpression |-> request.cronExpression]]
          ELSE calls' = [calls EXCEPT ![c].requested = Append(@, request),
                                      ![c].scheduleOptions = NewSchedule(request),
                                      ![c].scheduled = @ + 1]
    /\ UNCHANGED <<runs, files, queue, nextRunId, nextFileId, opCount, pauseSeq>>

\* A response of RUN that carries the items in the reverse order
ResponseOf_Reversed(call, value) ==
    [success |-> TRUE,
     output |-> [i \in 1..Len(value.items) |-> value.items[Len(value.items) + 1 - i]]]

\* A response of ON_ENABLE that carries the schedule whatever the strategy
ResponseOf_AnyStrategy(call, value) ==
    IF call.params.hookType = ON_ENABLE
    THEN [listeners |-> call.appListeners, scheduleOptions |-> call.scheduleOptions]
    ELSE IF call.params.hookType = ON_DISABLE THEN [x \in {} |-> TRUE]
    ELSE [success |-> TRUE, output |-> value.items]

\* The response of executeTrigger when the routine returned value
ResponseOf(call, value) ==
    LET hookType == call.params.hookType
    IN  IF hookType = ON_DISABLE THEN [x \in {} |-> TRUE]
        ELSE IF hookType = ON_ENABLE
        THEN [listeners |-> call.appListeners,
              scheduleOptions |-> IF TriggerType(call.params.triggerName) = POLLING
                                  THEN call.scheduleOptions ELSE NoSchedule]
        ELSE IF hookType = RENEW THEN [success |-> TRUE]
        ELSE IF hookType = HANDSHAKE THEN [success |-> TRUE, response |-> value]
        ELSE IF hookType = TEST THEN [success |-> TRUE, output |-> value]
        ELSE [success |-> TRUE, output |-> value.items]

\* The routine returns
RoutineReturns(c) ==
    /\ InRoutine(c)
    /\ \E value \in ReturnValues :
          LET call == [calls[c] EXCEPT !.returned = value]
          IN  IF call.params.hookType = RUN /\ ~value.isArray
              THEN calls' = [calls EXCEPT ![c] =
                       Fails(call, [code |-> "RUN_NOT_ARRAY", typeof |-> value.typeof])]
              ELSE calls' = [calls EXCEPT ![c] = Responds(call, ResponseOf(call, value))]
    /\ UNCHANGED <<runs, files, queue, nextRunId, nextFileId, opCount, pauseSeq>>

\* catch (e) of HANDSHAKE and TEST: the response, or the TypeError of
\* JSON.stringify(e) on a value it cannot serialize
Caught(call, e) ==
    IF ~e.serializable
    THEN Fails(call, [code |-> "TYPE_ERROR", from |-> "JSON.stringify"])
    ELSE IF call.params.hookType = HANDSHAKE
    THEN Responds(call, [success |-> FALSE, message |-> stringify(e)])
    ELSE Responds(call, [success |-> FALSE, message |-> stringify(e), output |-> <<>>])

\* The routine throws: its own error, or the error setSchedule threw into it
RoutineThrows(c) ==
    /\ InRoutine(c)
    /\ \E e \in ThrownValues \cup
                {[name |-> "InvalidCron", serializable |-> TRUE] : x \in 1..calls[c].rejected} :
          IF calls[c].params.hookType \in {HANDSHAKE, TEST}
          THEN calls' = [calls EXCEPT ![c] = Caught(calls[c], e)]
          ELSE calls' = [calls EXCEPT ![c] =
                   Fails(calls[c], [code |-> "ROUTINE_ERROR", thrown |-> e])]
    /\ UNCHANGED <<runs, files, queue, nextRunId, nextFileId, opCount, pauseSeq>>

Trigger(c) ==
    \/ ExecuteTrigger(c)
    \/ ContextCreateListeners(c)
    \/ ContextSetSchedule(c)
    \/ RoutineReturns(c)
    \/ RoutineThrows(c)

NextTrigger == Trigger(1)

SpecTrigger == InitTrigger /\ [][NextTrigger]_vars

(***************************************************************************)
(* CodeArtifactControlFullscreenComponent: the Test Code button            *)
(***************************************************************************)
MaxTests == 2

\* StepRunResponse: output, standardOutput, standardError
StepRunResponses ==
    {[output |-> "out", standardOutput |-> "log", standardError |-> ""],
     [output |-> Undefined, standardOutput |-> "log", standardError |-> "{json}"],
     [output |-> Undefined, standardOutput |-> "", standardError |-> "text"]}

\* tryParsingError(errorText): message and stack of a JSON error, else the text
tryParsingError(errorText) ==
    IF errorText = "{json}" THEN <<"message", "Stack:", "stack">> ELSE <<errorText>>

\* getConsoleResult(codeTestExecutionResult)
getConsoleResult(result) ==
    IF Truthy(result.standardError)
    THEN <<result.standardOutput, "---------error-------">>
             \o tryParsingError(result.standardError)
    ELSE <<result.standardOutput>>

\* tap: outputResult ? outputResult : 'No output returned, check logs in case of errors'
OutputResult(result) ==
    IF Truthy(result.output)
    THEN <<result.output>>
    ELSE <<"No output returned, check logs in case of errors">>

\* A button state that follows the tests only
DisableTestCodeBtn_TestingOnly(isSaving, isTesting) == isTesting

\* disableTestCodeBtn$: map(({isSaving, isTesting}) => isSaving || isTesting)
DisableTestCodeBtn(isSaving, isTesting) == isSaving \/ isTesting

\* testBtnText$
TestBtnText(isSaving, isTesting) ==
    IF isTesting THEN "Testing..." ELSE IF isSaving THEN "Saving..." ELSE "Test Code"

\* The component after construction.  pc is the state of executeCodeTest$:
\* "idle" (none, or completed), "created" (not yet subscribed), "request" (the
\* test request is in flight), "errored".  tests counts the testCode() calls.
NewComponent ==
    [op |-> "component", pc |-> "idle", isSaving |-> FALSE, testing |-> FALSE,
     disableTestCodeBtn |-> DisableTestCodeBtn(FALSE, FALSE),
     testBtnText |-> TestBtnText(FALSE, FALSE),
     outputResult |-> <<>>, consoleResult |-> <<>>,
     step |-> Undefined, flowVersionId |-> Undefined, tests |-> 0,
     selectedFile |-> "CONTENT", selectedTab |-> "OUTPUT"]

\* An emission of testCodeBtnState$ (combineLatest of isSaving and testing$)
Emit(component) ==
    [component EXCEPT
        !.disableTestCodeBtn = DisableTestCodeBtn(component.isSaving, component.testing),
        !.testBtnText = TestBtnText(component.isSaving, component.testing)]

InitTestCode ==
    /\ runs = <<>>
    /\ files = <<>>
    /\ queue = <<>>
    /\ calls = [c \in Slots |-> NewComponent]
    /\ nextRunId = 1
    /\ nextFileId = 1
    /\ opCount = 0
    /\ pauseSeq = [i \in 1..(MaxRuns + 1) |-> 0]

\* The store's selectIsSaving changes: a save of the flow begins or ends
StoreSaving(c) ==
    /\ calls' = [calls EXCEPT ![c] = Emit([calls[c] EXCEPT !.isSaving = ~@])]
    /\ UNCHANGED <<runs, files, queue, nextRunId, nextFileId, opCount, pauseSeq>>

\* testCode(), on a click of the button (a disabled button gives no click):
\* the form is reset, testing$.next(true), executeCodeTest$ is made
TestCode(c) ==
    /\ ~calls[c].disableTestCodeBtn
    /\ calls[c].tests < MaxTests
    /\ calls' = [calls EXCEPT ![c] =
          Emit([calls[c] EXCEPT !.outputResult = <<>>, !.consoleResult = <<>>,
                                !.testing = TRUE, !.pc = "created", !.tests = @ + 1])]
    /\ UNCHANGED <<runs, files, queue, nextRunId, nextFileId, opCount, pauseSeq>>

\* executeCodeTest$ is subscribed: forkJoin of the step and the draft version
\* id, then switchMap: the Error for a missing value, else the test request
Subscribe(c) ==
    /\ calls[c].pc = "created"
    /\ \E step \in {Undefined, "step_1"}, flowVersionId \in {Undefined, "v1"} :
          calls' = [calls EXCEPT ![c].step = step, ![c].flowVersionId = flowVersionId,
                       ![c].pc = IF ~Truthy(step) \/ ~Truthy(flowVersionId)
                                 THEN "errored" ELSE "request"]
    /\ UNCHANGED <<runs, files, queue, nextRunId, nextFileId, opCount, pauseSeq>>

\* testPieceOrCodeStep emits the result: the tap patches the form and does
\* testing$.next(false)
TestSucceeds(c) ==
    /\ calls[c].pc = "request"
    /\ \E result \in StepRunResponses :
          calls' = [calls EXCEPT ![c] =
              Emit([calls[c] EXCEPT !.outputResult = OutputResult(result),
                                    !.consoleResult = getConsoleResult(result),
                                    !.testing = FALSE, !.pc = "idle"])]
    /\ UNCHANGED <<runs, files, queue, nextRunId, nextFileId, opCount, pauseSeq>>

\* testPieceOrCodeStep errors: the tap is skipped, executeCodeTest$ errors
TestFails(c) ==
    /\ calls[c].pc = "request"
    /\ calls' = [calls EXCEPT ![c].pc = "errored"]
    /\ UNCHANGED <<runs, files, queue, nextRunId, nextFileId, opCount, pauseSeq>>

\* selectFile(fileToSelect)
SelectFile(c) ==
    /\ \E fileToSelect \in {"CONTENT", "PACKAGE"} : calls' = [calls EXCEPT ![c].selectedFile = fileToSelect]
    /\ UNCHANGED <<runs, files, queue, nextRunId, nextFileId, opCount, pauseSeq>>

\* selectTab(tabToSelect)
SelectTab(c) ==
    /\ \E tabToSelect \in {"OUTPUT", "CONSOLE"} : calls' = [calls EXCEPT ![c].selectedTab = tabToSelect]
    /\ UNCHANGED <<runs, files, queue, nextRunId, nextFileId, opCount, pauseSeq>>

Component(c) ==
    \/ SelectFile(c)
    \/ SelectTab(c)
    \/ StoreSaving(c)
    \/ TestCode(c)
    \/ Subscribe(c)
    \/ TestSucceeds(c)
    \/ TestFails(c)

NextTestCode == Component(1)

SpecTestCode == InitTestCode /\ [][NextTestCode]_vars

\* The view subscribes to executeCodeTest$ once it is made, and the test
\* request ends, with a result or with an error
SpecTestCodeFair ==
    /\ SpecTestCode
    /\ WF_vars(Subscribe(1))
    /\ WF_vars(TestSucceeds(1) \/ TestFails(1))

(***************************************************************************)
(* Properties.                                                             *)
(***************************************************************************)
Last(q) == q[Len(q)]

\* Call c takes a step
Moves(c) == calls'[c] # calls[c]

\* Call c runs addToQueue's load of the run in this step (called directly, or
\* by retry), on a run that is in the store
LoadsToResume(c) ==
    /\ calls[c].pc \in {"idle", "addToQueue"}
    /\ calls'[c].op \in {"addToQueue", "retry"}
    /\ calls'[c].pc \in {"start", "done"}

\* Call c is a resume through addToQueue that went on to start
Resuming(c) ==
    /\ calls[c].op = "addToQueue"
    /\ calls[c].pc \in {"start", "save", "enqueue", "done"}
    /\ calls[c].sp # NoParams

\* Call c is an addToQueue that returned without calling start
Skipped(c) ==
    /\ calls[c].op = "addToQueue"
    /\ calls[c].pc = "done"
    /\ calls[c].sp = NoParams

\* C1: addToQueue on a run whose stored pause metadata is WEBHOOK-typed, with
\* a request id other than the stored one (none included), changes nothing:
\* the run record (status, pause metadata), the queue and the files stay as
\* they are and the call returns without calling start.
C1_MismatchIsNoOp ==
    [][\A c \in Slots :
        LET id == calls'[c].args.flowRunId
        IN  (/\ LoadsToResume(c)
             /\ runs[id].pauseMetadata.type = "WEBHOOK"
             /\ calls'[c].args.requestId # runs[id].pauseMetadata.requestId)
            => /\ calls'[c].pc = "done"
               /\ calls'[c].sp = NoParams
               /\ calls'[c].saved = NoRun
               /\ runs' = runs
               /\ queue' = queue
               /\ files' = files]_vars

C1_Witness ==
    \E c \in Slots :
        /\ Skipped(c)
        /\ calls[c].pauseMetadata = WebhookPause("abc", OtherHandler)
        /\ calls[c].args.requestId = "xyz"
        /\ runs[calls[c].args.flowRunId].status = PAUSED
        /\ runs[calls[c].args.flowRunId].pauseMetadata = calls[c].pauseMetadata

\* C2: addToQueue on a PAUSED run with WEBHOOK pause metadata, called with the
\* stored request id, calls start, which loads the run, saves it with status
\* RUNNING and appends exactly one job for that run to the queue; no other step
\* of the call touches the queue.
C2_MatchResumesOnce ==
    [][\A c \in Slots :
        LET id == calls'[c].args.flowRunId
        IN  /\ (/\ LoadsToResume(c)
                /\ calls'[c].op = "addToQueue"
                /\ runs[id].status = PAUSED
                /\ runs[id].pauseMetadata.type = "WEBHOOK"
                /\ calls'[c].args.requestId = runs[id].pauseMetadata.requestId)
               => /\ calls'[c].pc = "start"
                  /\ calls'[c].sp.flowRunId = id
                  /\ queue' = queue
            /\ (Resuming(c) /\ Moves(c) /\ calls[c].pc = "start")
               => /\ calls'[c].pc = "save"
                  /\ calls'[c].flowRun.id = id
                  /\ queue' = queue
            /\ (Resuming(c) /\ Moves(c) /\ calls[c].pc = "save")
               => /\ calls'[c].pc = "enqueue"
                  /\ runs'[id].status = RUNNING
                  /\ queue' = queue
            /\ (Resuming(c) /\ Moves(c) /\ calls[c].pc = "enqueue")
               => /\ calls'[c].pc = "done"
                  /\ Len(queue') = Len(queue) + 1
                  /\ SubSeq(queue', 1, Len(queue)) = queue
                  /\ Last(queue').flowRun.id = id
                  /\ Last(queue').flowRun.status = RUNNING]_vars

C2_Witness ==
    \E c \in Slots :
        /\ Resuming(c)
        /\ calls[c].pc = "done"
        /\ calls[c].pauseMetadata = WebhookPause("abc", OtherHandler)
        /\ calls[c].args.requestId = "abc"
        /\ calls[c].flowRun.status = PAUSED
        /\ runs[calls[c].args.flowRunId].status = RUNNING
        /\ Len(queue) = 2
        /\ Last(queue).flowRun.id = calls[c].args.flowRunId

\* The jobs that addToQueue calls enqueued for pause number n of run id
ResumesOf(id, n) ==
    {i \in 1..Len(queue) :
        /\ queue[i].via = "addToQueue"
        /\ queue[i].flowRun.id = id
        /\ queue[i].forPause = n}

\* C3: for each pause of a run, at most one addToQueue call enqueues the run.
C3_AtMostOneResumePerPause ==
    \A id \in DOMAIN runs : \A n \in 1..pauseSeq[id] : Cardinality(ResumesOf(id, n)) <= 1

\* C4: an addToQueue call goes on to start only if the pause metadata it read
\* is absent or is WEBHOOK-typed with the call's own request id; so of the
\* calls that read the same pause metadata, those with another request id
\* never enqueue the run.
C4_OnlyMatchingRequestProceeds ==
    /\ \A c \in Slots :
          (Resuming(c) /\ ~isNilPause(calls[c].pauseMetadata))
          => /\ calls[c].pauseMetadata.type = "WEBHOOK"
             /\ calls[c].args.requestId = calls[c].pauseMetadata.requestId
    /\ \A i \in 1..Len(queue) :
          (queue[i].via = "addToQueue" /\ ~isNilPause(queue[i].pauseMetadata))
          => /\ queue[i].pauseMetadata.type = "WEBHOOK"
             /\ queue[i].httpRequestId = queue[i].pauseMetadata.requestId
    /\ \A i, j \in 1..Len(queue) :
          (/\ queue[i].via = "addToQueue" /\ queue[j].via = "addToQueue"
           /\ queue[i].flowRun.id = queue[j].flowRun.id
           /\ ~isNilPause(queue[i].pauseMetadata)
           /\ queue[i].pauseMetadata = queue[j].pauseMetadata)
          => queue[i].httpRequestId = queue[j].httpRequestId

\* Two concurrent addToQueue calls for the same paused run with different
\* request ids: the matching one is on its way to the queue, the other returned
C4_Witness ==
    \E c, d \in Slots :
        /\ Resuming(c) /\ calls[c].pc = "save"
        /\ Skipped(d)
        /\ calls[c].args.flowRunId = calls[d].args.flowRunId
        /\ calls[c].args.requestId = "abc"
        /\ calls[d].args.requestId = "xyz"
        /\ calls[c].pauseMetadata = calls[d].pauseMetadata
        /\ calls[c].pauseMetadata.type = "WEBHOOK"

\* C5: when a resume through addToQueue has handed the run to the queue, the
\* run record has no pause metadata and has status RUNNING.
C5_ResumeClearsPause ==
    \A c \in Slots :
        (Resuming(c) /\ calls[c].pc = "done" /\ ~isNilPause(calls[c].pauseMetadata))
        => /\ runs[calls[c].args.flowRunId].pauseMetadata = NilPM
           /\ runs[calls[c].args.flowRunId].status = RUNNING

\* C6: a run record carries pause metadata only if its status is PAUSED.
C6_PauseMetadataOnlyWhilePaused ==
    \A id \in DOMAIN runs : ~isNilPause(runs[id].pauseMetadata) => runs[id].status = PAUSED

\* The handler id C7 names, and the one the code gives
HandlerAsClaimed(pauseMetadata, requestId) ==
    IF /\ ~isNilPause(pauseMetadata)
       /\ pauseMetadata.type = "WEBHOOK"
       /\ requestId = pauseMetadata.requestId
    THEN pauseMetadata.handlerId
    ELSE ServerId

HandlerAsAmended(pauseMetadata, requestId) ==
    IF /\ ~isNilPause(pauseMetadata)
       /\ pauseMetadata.type = "WEBHOOK"
       /\ requestId = pauseMetadata.requestId
       /\ pauseMetadata.handlerId \notin {Undefined, ""}
    THEN pauseMetadata.handlerId
    ELSE ServerId

\* C7 as claimed: for the pause metadata of every run in the store and every
\* request id, returnHandlerId gives the stored handler id exactly when the
\* pause is WEBHOOK-typed and the request id is the stored one, and otherwise
\* this process's own id; and every job addToQueue enqueues carries that id.
C7_HandlerAsClaimed ==
    /\ \A id \in DOMAIN runs : \A requestId \in RequestIds \cup {Undefined} :
          returnHandlerId(runs[id].pauseMetadata, requestId)
              = HandlerAsClaimed(runs[id].pauseMetadata, requestId)
    /\ \A i \in 1..Len(queue) :
          queue[i].via \in {"addToQueue", "retry"}
          => queue[i].synchronousHandlerId
                 = HandlerAsClaimed(queue[i].pauseMetadata, queue[i].httpRequestId)

\* C7 as amended: the stored handler id is given only if, in addition, a
\* handler id is stored in the pause metadata; a WEBHOOK pause without one
\* gives this process's own id.
C7_HandlerAsAmended ==
    /\ \A id \in DOMAIN runs : \A requestId \in RequestIds \cup {Undefined} :
          returnHandlerId(runs[id].pauseMetadata, requestId)
              = HandlerAsAmended(runs[id].pauseMetadata, requestId)
    /\ \A i \in 1..Len(queue) :
          queue[i].via \in {"addToQueue", "retry"}
          => queue[i].synchronousHandlerId
                 = HandlerAsAmended(queue[i].pauseMetadata, queue[i].httpRequestId)

C7_Witness ==
    /\ \E i \in 1..Len(queue) :
          /\ queue[i].via = "addToQueue"
          /\ queue[i].pauseMetadata = WebhookPause("abc", OtherHandler)
          /\ queue[i].synchronousHandlerId = OtherHandler
    /\ \E id \in DOMAIN runs : runs[id].pauseMetadata = WebhookPause("abc", OtherHandler)

\* The steps getOnePopulatedOrThrow gives for run id in the current store
PopulatedSteps(id) ==
    IF runs[id].logsFileId = NoId THEN NoSteps ELSE ParseSteps(files[runs[id].logsFileId].data)

\* Call c is a retry with the given strategy that has handed the run to the queue
Retried(c, strategy) ==
    /\ calls[c].op = "retry"
    /\ calls[c].args.strategy = strategy
    /\ calls[c].pc = "done"
    /\ calls[c].saved # NoRun

\* C8: when retry with ON_LATEST_VERSION has enqueued the run, the run record
\* and the run handed to the queue have the flow's latest locked version as
\* flowVersionId, and the job has execution kind BEGIN and the recorded output
\* of the trigger step as payload.
C8_RetryOnLatestVersion ==
    \A c \in Slots :
      /\ (/\ calls[c].op = "retry"
          /\ calls[c].args.strategy = ON_LATEST_VERSION
          /\ calls[c].pc \in {"addToQueue", "start", "save", "enqueue"})
         => runs[calls[c].args.flowRunId].flowVersionId
               = LatestLockedVersion(runs[calls[c].args.flowRunId].flowId)
      /\ Retried(c, ON_LATEST_VERSION)
        => LET id == calls[c].args.flowRunId
               latest == LatestLockedVersion(runs[id].flowId)
           IN  /\ runs[id].flowVersionId = latest
               /\ Last(queue).flowRun.id = id
               /\ Last(queue).flowRun.flowVersionId = latest
               /\ Last(queue).executionType = BEGIN
               /\ Last(queue).payload = TriggerOutput(PopulatedSteps(id), latest)

C8_Witness ==
    \E c \in Slots :
        /\ Retried(c, ON_LATEST_VERSION)
        /\ Len(queue) = 2
        /\ queue[1].flowRun.id = calls[c].args.flowRunId
        /\ queue[1].flowRun.flowVersionId = "v1"
        /\ Last(queue).flowRun.flowVersionId = "v2"
        /\ runs[calls[c].args.flowRunId].flowVersionId = "v2"
        /\ Last(queue).payload = "out_trigger"
        /\ Last(queue).executionType = BEGIN

\* Call c is a retry with FROM_FAILED_STEP
RetryingFromFailedStep(c) ==
    calls[c].op = "retry" /\ calls[c].args.strategy = FROM_FAILED_STEP

\* C9: retry with FROM_FAILED_STEP on a FAILED run in the store, whatever the
\* run went through before it failed, goes on to start with execution kind
\* RESUME and no payload; the save leaves the run's flowVersionId as it was, and
\* exactly one job for that run is appended to the queue.
C9_RetryFromFailedStep ==
    [][\A c \in Slots :
        LET id == calls'[c].args.flowRunId
        IN  /\ (/\ calls[c].pc = "idle"
                /\ calls'[c].op = "retry"
                /\ calls'[c].args.strategy = FROM_FAILED_STEP
                /\ id \in DOMAIN runs
                /\ runs[id].status = FAILED)
               => /\ calls'[c].pc = "start"
                  /\ calls'[c].sp.flowRunId = id
                  /\ calls'[c].sp.flowVersionId = runs[id].flowVersionId
                  /\ calls'[c].sp.executionType = RESUME
                  /\ calls'[c].sp.payload = Undefined
                  /\ runs' = runs /\ queue' = queue
            /\ (RetryingFromFailedStep(c) /\ Moves(c) /\ calls[c].pc = "start")
               => calls'[c].pc = "save" /\ runs' = runs /\ queue' = queue
            /\ (RetryingFromFailedStep(c) /\ Moves(c) /\ calls[c].pc = "save")
               => /\ calls'[c].pc = "enqueue"
                  /\ runs'[id].flowVersionId = runs[id].flowVersionId
                  /\ queue' = queue
            /\ (RetryingFromFailedStep(c) /\ Moves(c) /\ calls[c].pc = "enqueue")
               => /\ calls'[c].pc = "done"
                  /\ Len(queue') = Len(queue) + 1
                  /\ SubSeq(queue', 1, Len(queue)) = queue
                  /\ Last(queue').flowRun.id = id
                  /\ Last(queue').executionType = RESUME
                  /\ Last(queue').payload = Undefined]_vars

\* Call c is a direct call of start
Starting(c) == calls[c].op = "start"

\* C10: start without a run id makes a record with an id no record has; start
\* with a run id loads that record, and fails with FLOW_RUN_NOT_FOUND, writing
\* nothing, if the run is not of the flow's project; the record is saved with
\* status RUNNING and otherwise as loaded or made, exactly one job is appended
\* for it, with the given execution kind and synchronous-handler id, and the
\* saved run is what start returns.
C10_StartCreatesOrReuses ==
    [][\A c \in Slots :
        LET sp == calls'[c].sp
            flowId == FlowOfVersion(sp.flowVersionId)
        IN  /\ (calls[c].pc = "idle" /\ calls'[c].op = "start" /\ calls'[c].pc = "save")
               => /\ sp.flowRunId = NoId
                     => /\ calls'[c].flowRun.id \notin DOMAIN runs
                        /\ \A d \in Slots : calls[d].flowRun.id # calls'[c].flowRun.id
                        /\ calls'[c].flowRun.projectId = ProjectOfFlow(flowId)
                        /\ calls'[c].flowRun.flowId = flowId
                        /\ calls'[c].flowRun.flowVersionId = sp.flowVersionId
                        /\ calls'[c].flowRun.environment = sp.environment
                  /\ sp.flowRunId # NoId
                     => /\ sp.flowRunId \in DOMAIN runs
                        /\ calls'[c].flowRun = runs[sp.flowRunId]
                        /\ runs[sp.flowRunId].projectId = ProjectOfFlow(flowId)
                  /\ runs' = runs /\ queue' = queue
            /\ (/\ calls[c].pc = "idle" /\ calls'[c].op = "start"
                /\ sp.projectId = ProjectOfFlow(flowId)
                /\ sp.flowRunId # NoId
                /\ \/ sp.flowRunId \notin DOMAIN runs
                   \/ runs[sp.flowRunId].projectId # ProjectOfFlow(flowId))
               => /\ calls'[c].pc = "failed"
                  /\ calls'[c].error = "FLOW_RUN_NOT_FOUND"
                  /\ runs' = runs /\ queue' = queue
            /\ (Starting(c) /\ Moves(c) /\ calls[c].pc = "save")
               => /\ calls'[c].pc = "enqueue"
                  /\ calls'[c].saved = [calls[c].flowRun EXCEPT !.status = RUNNING]
                  /\ DOMAIN runs' = DOMAIN runs \cup {calls[c].flowRun.id}
                  /\ runs'[calls[c].flowRun.id] = calls'[c].saved
                  /\ \A id \in DOMAIN runs : id # calls[c].flowRun.id => runs'[id] = runs[id]
                  /\ queue' = queue
            /\ (Starting(c) /\ Moves(c) /\ calls[c].pc = "enqueue")
               => /\ calls'[c].pc = "done"
                  /\ calls'[c].saved = calls[c].saved
                  /\ Len(queue') = Len(queue) + 1
                  /\ SubSeq(queue', 1, Len(queue)) = queue
                  /\ Last(queue').flowRun = calls[c].saved
                  /\ Last(queue').executionType = calls[c].sp.executionType
                  /\ Last(queue').synchronousHandlerId = calls[c].sp.synchronousHandlerId
                  /\ runs' = runs]_vars

\* A second run was created with a fresh id, and the first was started again
\* under its own id
C10_Witness ==
    /\ DOMAIN runs = {1, 2}
    /\ Len(queue) = 3
    /\ queue[1].flowRun.id = 1 /\ queue[2].flowRun.id = 2 /\ queue[3].flowRun.id = 1
    /\ \E c \in Slots :
          /\ Starting(c) /\ calls[c].pc = "done"
          /\ calls[c].sp.flowRunId = 1
          /\ calls[c].sp.executionType = RESUME
          /\ Last(queue).executionType = RESUME
          /\ Last(queue).synchronousHandlerId = OtherHandler
          /\ runs[1] = calls[c].saved

\* The status changes the lifecycle allows: created as RUNNING, RUNNING to
\* PAUSED, PAUSED to RUNNING, RUNNING to a terminal status
LifecycleStep(from, to) ==
    \/ from = RUNNING /\ to = PAUSED
    \/ from = PAUSED /\ to = RUNNING
    \/ from = RUNNING /\ to \in {SUCCEEDED, FAILED}

\* C11: a run record appears with status RUNNING, and its status changes only
\* from RUNNING to PAUSED, from PAUSED to RUNNING and from RUNNING to a terminal
\* status; a terminal status never changes again.
C11_LifecycleTransitions ==
    [][/\ \A id \in DOMAIN runs' \ DOMAIN runs : runs'[id].status = RUNNING
       /\ \A id \in DOMAIN runs :
             runs'[id].status # runs[id].status
             => LifecycleStep(runs[id].status, runs'[id].status)]_vars

\* C12: pause writes status PAUSED and the given pause metadata, as given, to
\* the run record and nothing else; it then loads the record and hands that run,
\* PAUSED and with the given metadata, to the pause side effect.
C12_PauseStoresMetadata ==
    [][\A c \in Slots :
        LET id == calls'[c].args.flowRunId
        IN  /\ (calls[c].pc = "idle" /\ calls'[c].op = "pause")
               => /\ calls'[c].pc = "pause_notify"
                  /\ runs'[id] = [runs[id] EXCEPT
                                      !.status = PAUSED,
                                      !.pauseMetadata = calls'[c].args.pauseMetadata]
                  /\ \A other \in DOMAIN runs : other # id => runs'[other] = runs[other]
                  /\ DOMAIN runs' = DOMAIN runs
                  /\ queue' = queue /\ files' = files
            /\ (calls[c].op = "pause" /\ calls[c].pc = "pause_notify" /\ Moves(c))
               => /\ calls'[c].pc = "done"
                  /\ calls'[c].flowRun = runs[id]
                  /\ calls'[c].flowRun.status = PAUSED
                  /\ calls'[c].flowRun.pauseMetadata = calls[c].args.pauseMetadata
                  /\ runs' = runs /\ queue' = queue /\ files' = files]_vars

\* pause has notified the side effect of a WEBHOOK pause of a run that was
\* paused for a DELAY before
C12_Witness ==
    \E c \in Slots :
        /\ calls[c].op = "pause" /\ calls[c].pc = "done"
        /\ calls[c].args.pauseMetadata = WebhookPause("xyz", OtherHandler)
        /\ runs[calls[c].args.flowRunId].pauseMetadata = WebhookPause("xyz", OtherHandler)
        /\ runs[calls[c].args.flowRunId].status = PAUSED
        /\ pauseSeq[calls[c].args.flowRunId] = 2

\* C13: no step of an updateStatus call replaces a logsFileId that a run record
\* has by another one, and an updateStatus call for a run that has one saves its
\* file under that id.
C13_LogsFileIdStable ==
    [][\A c \in Slots :
        (calls[c].op = "updateStatus" /\ Moves(c))
        => LET id == calls[c].args.flowRunId
           IN  /\ \A other \in DOMAIN runs :
                     runs[other].logsFileId # NoId
                     => runs'[other].logsFileId = runs[other].logsFileId
               /\ (/\ calls[c].pc = "save_logs"
                   /\ runs[id].logsFileId # NoId)
                  => calls[c].fileId = runs[id].logsFileId]_vars

\* The execution state serializes to more than MAX_LOG_SIZE
TooLarge(executionState) ==
    executionState # NoState /\ Cardinality(DOMAIN executionState.steps) > MAX_LOG_SIZE

\* C14: updateStatus for a run in the store with an execution state whose
\* serialized form is over MAX_LOG_SIZE reports the error to the exception
\* handler and fails with it; the run record, the files and the queue are as
\* they were, and the call never reaches the reload and the finish side effect.
C14_TooLargeLeavesRunUnchanged ==
    [][\A c \in Slots :
        (/\ calls[c].pc = "idle"
         /\ calls'[c].op = "updateStatus"
         /\ calls'[c].args.flowRunId \in DOMAIN runs
         /\ TooLarge(calls'[c].args.executionState))
        => /\ calls'[c].pc = "failed"
           /\ calls'[c].error = "LOG_TOO_LARGE"
           /\ "LOG_TOO_LARGE" \in calls'[c].logged
           /\ calls'[c].flowRun = NoRun
           /\ runs' = runs
           /\ files' = files
           /\ nextFileId' = nextFileId
           /\ queue' = queue]_vars

\* The too large report came for a run that has a status, a duration and a file
\* from an earlier report
C14_Witness ==
    \E c \in Slots :
        /\ calls[c].op = "updateStatus" /\ calls[c].pc = "failed"
        /\ calls[c].error = "LOG_TOO_LARGE"
        /\ TooLarge(calls[c].args.executionState)
        /\ calls[c].args.status = FAILED
        /\ LET flowRun == runs[calls[c].args.flowRunId]
           IN  /\ flowRun.status = SUCCEEDED
               /\ flowRun.logsFileId # NoId
               /\ flowRun.duration = 1
               /\ ParseSteps(files[flowRun.logsFileId].data) = StepsOf({"trigger", "step_1"})

\* The runs of a page
Rows(page) == {page[i] : i \in 1..Len(page)}

\* C15: whatever the filters, every run of the store that passes list's
\* conditions has environment PRODUCTION and the given project id; and every
\* page a list call returned holds only runs of the store that pass the
\* conditions of the call, all PRODUCTION and of the given project.
C15_ListOnlyProduction ==
    /\ \A params \in AllListParams : \A id \in DOMAIN runs :
          Where(runs[id], params)
          => runs[id].environment = PRODUCTION /\ runs[id].projectId = params.projectId
    /\ \A c \in Slots : \A flowRun \in Rows(calls[c].page) :
          /\ flowRun \in {runs[id] : id \in DOMAIN runs}
          /\ Where(flowRun, calls[c].args)
          /\ flowRun.environment = PRODUCTION
          /\ flowRun.projectId = calls[c].args.projectId

\* A list of project p1 returned its PRODUCTION run while the project's TESTING
\* run, which passes every other filter, is in the store
C15_Witness ==
    \E c \in Slots :
        /\ calls[c].op = "list" /\ calls[c].pc = "done"
        /\ Len(calls[c].page) = 1
        /\ \E id \in DOMAIN runs :
              /\ runs[id].environment = TESTING
              /\ Where_AnyEnvironment(runs[id], calls[c].args)
              /\ runs[id] \notin Rows(calls[c].page)

\* Call c is an updateStatus whose update of the record is done
Reported(c) ==
    /\ calls[c].op = "updateStatus"
    /\ calls[c].pc \in {"populate", "populate_file", "done"}
    /\ calls[c].args.flowRunId \in DOMAIN runs

C17_DurationFloored ==
    \A c \in Slots :
        Reported(c)
        => runs[calls[c].args.flowRunId].duration = calls[c].args.duration \div 2

\* Call c is in start, called directly, by test or by addToQueue, and its
\* telemetry event failed
TelemetryFailed(c) ==
    /\ calls[c].op \in {"start", "test", "addToQueue"}
    /\ "TELEMETRY_FAILED" \in calls[c].logged

\* C18: a start whose telemetry event fails saves the run with status RUNNING
\* all the same, does not fail, and its next step appends the job of the saved
\* run to the queue and returns the saved run.
C18_TelemetryFailureSwallowed ==
    [][\A c \in Slots :
        /\ (TelemetryFailed(c)' /\ ~TelemetryFailed(c))
           => /\ calls'[c].pc = "enqueue"
              /\ calls'[c].error = "none"
              /\ calls'[c].saved = [calls[c].flowRun EXCEPT !.status = RUNNING]
              /\ runs'[calls[c].flowRun.id] = calls'[c].saved
              /\ queue' = queue
        /\ (TelemetryFailed(c) /\ Moves(c) /\ calls[c].pc = "enqueue")
           => /\ calls'[c].pc = "done"
              /\ calls'[c].error = "none"
              /\ calls'[c].saved = calls[c].saved
              /\ queue' = Append(queue, Job(calls[c]))
              /\ Last(queue').flowRun = calls[c].saved
              /\ runs' = runs
              /\ runs[calls[c].saved.id] = calls[c].saved
        /\ TelemetryFailed(c) => calls[c].pc \in {"enqueue", "done"}]_vars

\* A resume of a paused run went through although its telemetry event failed
C18_Witness ==
    \E c \in Slots :
        /\ TelemetryFailed(c)
        /\ calls[c].op = "addToQueue" /\ calls[c].pc = "done"
        /\ calls[c].flowRun.status = PAUSED
        /\ runs[calls[c].saved.id].status = RUNNING
        /\ Last(queue).flowRun = calls[c].saved

\* C19: no call of start, pause or updateStatus fails with the error of its
\* side effect: the caller gets the result of the operation.
C19_SideEffectFailureNotPropagated ==
    \A c \in Slots :
        calls[c].op \in {"start", "pause", "updateStatus"}
        => ~(calls[c].pc = "failed" /\ calls[c].error = "SIDE_EFFECT_FAILED")

\* Call c has failed with FLOW_RUN_NOT_FOUND in this step, and the store and the
\* queue are as they were
NotFound(c) ==
    /\ calls'[c].pc = "failed"
    /\ calls'[c].error = "FLOW_RUN_NOT_FOUND"
    /\ runs' = runs
    /\ queue' = queue
    /\ files' = files

\* C20: for a run id that is not in the store, addToQueue (called directly or
\* by retry), getOneOrThrow (in start) and getOnePopulatedOrThrow (in retry and
\* in updateStatus) fail with FLOW_RUN_NOT_FOUND for the id they were given, and
\* no run record and no job is made.
C20_NotFound ==
    [][\A c \in Slots :
        /\ (/\ calls[c].pc = "idle"
            /\ calls'[c].op \in {"addToQueue", "retry"}
            /\ calls'[c].args.flowRunId \notin DOMAIN runs)
           => NotFound(c)
        /\ (/\ calls[c].pc = "idle"
            /\ calls'[c].op = "start"
            /\ calls'[c].sp.flowRunId \notin DOMAIN runs \cup {NoId}
            /\ calls'[c].sp.projectId
                   = ProjectOfFlow(FlowOfVersion(calls'[c].sp.flowVersionId)))
           => NotFound(c)
        /\ (/\ calls[c].op = "updateStatus"
            /\ calls[c].pc = "populate"
            /\ Moves(c)
            /\ calls[c].args.flowRunId \notin DOMAIN runs)
           => NotFound(c)]_vars

\* addToQueue failed for an id that no run has, next to a run that is paused
\* and waits for its resume
C20_Witness ==
    \E c \in Slots :
        /\ calls[c].op = "addToQueue"
        /\ calls[c].pc = "failed"
        /\ calls[c].error = "FLOW_RUN_NOT_FOUND"
        /\ calls[c].args.flowRunId \notin DOMAIN runs
        /\ calls[c].args.requestId = "abc"
        /\ DOMAIN runs = {1}
        /\ runs[1].pauseMetadata = WebhookPause("abc", OtherHandler)
        /\ Len(queue) = 1

(***************************************************************************)
(* executeTrigger                                                          *)
(***************************************************************************)

\* The executeTrigger call, the strategy of its trigger, and what it invoked
TriggerCall == calls[1]
Strategy == TriggerType(TriggerCall.params.triggerName)
Responded(hookType) ==
    /\ TriggerCall.op = "executeTrigger"
    /\ TriggerCall.pc = "done"
    /\ TriggerCall.params.hookType = hookType
Invoked(name) == \E i \in 1..Len(TriggerCall.invoked) : TriggerCall.invoked[i] = name

\* C21: the scheduleOptions ON_ENABLE returns is present if and only if the
\* trigger's strategy is POLLING and a setSchedule call of the enable routine
\* returned; for WEBHOOK and APP_WEBHOOK triggers it is absent however many
\* times setSchedule was called
C21_ScheduleIffPollingAndSet ==
    Responded(ON_ENABLE) =>
        /\ (TriggerCall.result.scheduleOptions # NoSchedule)
               <=> (Strategy = POLLING /\ TriggerCall.scheduled > 0)
        /\ Strategy \in {WEBHOOK, APP_WEBHOOK} => TriggerCall.result.scheduleOptions = NoSchedule

C21_Witness ==
    /\ Responded(ON_ENABLE)
    /\ Strategy = POLLING
    /\ TriggerCall.scheduled > 0
    /\ TriggerCall.result.scheduleOptions # NoSchedule

C21_WitnessWebhook ==
    /\ Responded(ON_ENABLE)
    /\ Strategy = WEBHOOK
    /\ TriggerCall.scheduled = MaxContextCalls
    /\ TriggerCall.result.scheduleOptions = NoSchedule

\* The step is a setSchedule call with the request
SetScheduleStep(request) ==
    /\ InRoutine(1)
    /\ calls'[1].requested = Append(TriggerCall.requested, request)

\* C22: setSchedule with a cron expression that does not parse throws the
\* invalid-cron error and leaves the schedule as it was; with one that parses
\* it records the schedule, with timezone "UTC" and failureCount 0 where the
\* request gives none
C22_SetSchedule ==
    [][\A request \in ScheduleRequests : SetScheduleStep(request) =>
          IF request.cronExpression \in {"not-a-cron", ""}
          THEN /\ calls'[1].contextError =
                      [code |-> "INVALID_CRON", cronExpression |-> request.cronExpression]
               /\ calls'[1].rejected = TriggerCall.rejected + 1
               /\ calls'[1].scheduleOptions = TriggerCall.scheduleOptions
          ELSE LET schedule == calls'[1].scheduleOptions
               IN  /\ DOMAIN schedule = {"cronExpression", "timezone", "failureCount"}
                   /\ schedule.cronExpression = request.cronExpression
                   /\ schedule.timezone =
                          IF "timezone" \in DOMAIN request THEN request.timezone ELSE "UTC"
                   /\ schedule.failureCount =
                          IF "failureCount" \in DOMAIN request THEN request.failureCount ELSE 0
                   /\ calls'[1].rejected = TriggerCall.rejected]_vars

C22_Witness ==
    /\ InRoutine(1)
    /\ TriggerCall.requested = <<[cronExpression |-> "0 * * * *"],
                                 [cronExpression |-> "not-a-cron", timezone |-> "Europe/Paris"]>>
    /\ TriggerCall.scheduleOptions =
           [cronExpression |-> "0 * * * *", timezone |-> "UTC", failureCount |-> 0]
    /\ TriggerCall.contextError.code = "INVALID_CRON"

\* The call is a RUN on an APP_WEBHOOK trigger that has passed validation
AppWebhookRun ==
    /\ TriggerCall.op = "executeTrigger"
    /\ TriggerCall.params.hookType = RUN
    /\ TriggerCall.params.triggerName \in TriggerNames
    /\ Strategy = APP_WEBHOOK
    /\ TriggerCall.params.input = "valid"

\* C23: RUN on an APP_WEBHOOK trigger whose verification gives false or throws
\* returns {success: false, message, output: []}, raises nothing and never
\* invokes the run routine
C23_UnverifiedWebhookNotRun ==
    (/\ AppWebhookRun
     /\ Truthy(TriggerCall.params.appWebhookUrl)
     /\ Truthy(TriggerCall.params.webhookSecret)
     /\ TriggerCall.params.verify \in {"false", "throws"})
    => /\ TriggerCall.pc = "done"
       /\ TriggerCall.error = NoError
       /\ DOMAIN TriggerCall.result = {"success", "message", "output"}
       /\ TriggerCall.result.success = FALSE
       /\ TriggerCall.result.output = <<>>
       /\ ~Invoked("run")

C23_Witness ==
    /\ AppWebhookRun
    /\ TriggerCall.params.verify = "throws"
    /\ TriggerCall.pc = "done"
    /\ TriggerCall.invoked = <<"verify">>
    /\ TriggerCall.result.message = "Error while verifying webhook"

C23_WitnessFalse ==
    /\ AppWebhookRun
    /\ TriggerCall.params.verify = "false"
    /\ TriggerCall.pc = "done"
    /\ TriggerCall.result.message = "Webhook is not verified"

\* The call has failed with an error of one of the codes
Failed(codes) ==
    /\ TriggerCall.pc = "failed"
    /\ TriggerCall.error.code \in codes

\* The call is a RUN that has passed validation
ValidRun ==
    /\ TriggerCall.op = "executeTrigger"
    /\ TriggerCall.params.hookType = RUN
    /\ TriggerCall.params.triggerName \in TriggerNames
    /\ TriggerCall.params.input = "valid"

\* C24: RUN on an APP_WEBHOOK trigger without the app-webhook URL or without
\* the webhook secret raises an error naming the piece and invokes neither the
\* verification nor the run routine; RUN on a POLLING or WEBHOOK trigger needs
\* neither value and invokes the run routine
C24_AppWebhookNeedsUrlAndSecret ==
    /\ (/\ AppWebhookRun
        /\ \/ TriggerCall.params.appWebhookUrl \in {Undefined, ""}
           \/ TriggerCall.params.webhookSecret \in {Undefined, ""})
       => /\ Failed({"APP_WEBHOOK_URL_MISSING", "WEBHOOK_SECRET_MISSING"})
          /\ TriggerCall.error.pieceName = PieceName
          /\ TriggerCall.invoked = <<>>
    /\ (ValidRun /\ Strategy \in {POLLING, WEBHOOK})
       => /\ ~Failed({"APP_WEBHOOK_URL_MISSING", "WEBHOOK_SECRET_MISSING"})
          /\ TriggerCall.invoked = <<"run">>

C24_Witness ==
    /\ AppWebhookRun
    /\ TriggerCall.params.appWebhookUrl = "url"
    /\ TriggerCall.params.webhookSecret = ""
    /\ TriggerCall.params.verify = "true"
    /\ Failed({"WEBHOOK_SECRET_MISSING"})

C24_WitnessPolling ==
    /\ ValidRun
    /\ Strategy = POLLING
    /\ TriggerCall.params.appWebhookUrl = Undefined
    /\ TriggerCall.params.webhookSecret = Undefined
    /\ TriggerCall.pc = "done"
    /\ TriggerCall.result.success

\* C25: when the run routine returns a value that is no array, RUN fails with
\* an error that tells the type of the value; when it returns an array, the
\* empty one too, RUN returns {success: true, output} with the array as output,
\* in the same order
C25_RunOutput ==
    (ValidRun /\ TriggerCall.returned # NoValue) =>
        IF TriggerCall.returned.isArray
        THEN /\ TriggerCall.pc = "done"
             /\ TriggerCall.result = [success |-> TRUE, output |-> TriggerCall.returned.items]
        ELSE /\ Failed({"RUN_NOT_ARRAY"})
             /\ TriggerCall.error.typeof = TriggerCall.returned.typeof
             /\ TriggerCall.result = NoResult

C25_Witness ==
    /\ ValidRun
    /\ TriggerCall.returned # NoValue
    /\ TriggerCall.returned.isArray
    /\ TriggerCall.result = [success |-> TRUE, output |-> <<"b", "a">>]

C25_WitnessEmpty ==
    /\ ValidRun
    /\ TriggerCall.returned # NoValue
    /\ TriggerCall.returned.isArray
    /\ TriggerCall.result = [success |-> TRUE, output |-> <<>>]

C25_WitnessNotArray ==
    /\ ValidRun
    /\ TriggerCall.returned = [typeof |-> "undefined", isArray |-> FALSE, items |-> <<>>]
    /\ Failed({"RUN_NOT_ARRAY"})

\* C26: for every hook type, when the trigger is not on the piece or the input
\* has a field error, the call fails before any routine of the trigger is
\* invoked: with the trigger-not-found error for a name that is not on the
\* piece, and with the mapping of fields to errors for an input that is not valid
C26_NoHookOnMissingTriggerOrInvalidInput ==
    (/\ TriggerCall.op = "executeTrigger"
     /\ \/ TriggerCall.params.triggerName \notin TriggerNames
        \/ TriggerCall.params.input = "invalid")
    => /\ Failed({"TRIGGER_NAME_REQUIRED", "TRIGGER_NOT_FOUND", "VALIDATION"})
       /\ TriggerCall.invoked = <<>>
       /\ TriggerCall.result = NoResult
       /\ TriggerCall.params.triggerName = "gone"
              => TriggerCall.error = [code |-> "TRIGGER_NOT_FOUND", pieceName |-> PieceName,
                                      triggerName |-> "gone"]
       /\ TriggerCall.params.triggerName \in TriggerNames
              => /\ TriggerCall.error.code = "VALIDATION"
                 /\ TriggerCall.error.errors = [field \in {"channel"} |-> "required"]

C26_Witness ==
    /\ TriggerCall.op = "executeTrigger"
    /\ TriggerCall.params.hookType = ON_ENABLE
    /\ TriggerCall.params.triggerName = "poll"
    /\ TriggerCall.params.input = "invalid"
    /\ Failed({"VALIDATION"})

C26_WitnessNotFound ==
    /\ TriggerCall.op = "executeTrigger"
    /\ TriggerCall.params.hookType = TEST
    /\ TriggerCall.params.triggerName = "gone"
    /\ Failed({"TRIGGER_NOT_FOUND"})

\* The call is of the hook type, on a trigger of the piece, with a valid input
ValidCall(hookType) ==
    /\ TriggerCall.op = "executeTrigger"
    /\ TriggerCall.params.hookType = hookType
    /\ TriggerCall.params.triggerName \in TriggerNames
    /\ TriggerCall.params.input = "valid"

\* C27: RENEW on a POLLING or APP_WEBHOOK trigger fails without invoking the
\* renew routine; on a WEBHOOK trigger it invokes the renew routine, returns
\* {success: true} when the routine returns, and fails with the routine's
\* error when the routine throws
C27_RenewOnlyForWebhook ==
    ValidCall(RENEW) =>
        IF Strategy # WEBHOOK
        THEN /\ Failed({"ASSERT_EQUAL"})
             /\ TriggerCall.invoked = <<>>
        ELSE /\ TriggerCall.invoked = <<"onRenew">>
             /\ TriggerCall.pc = "done"
                    => /\ TriggerCall.returned # NoValue
                       /\ TriggerCall.result = [success |-> TRUE]
             /\ TriggerCall.pc = "failed"
                    => /\ TriggerCall.returned = NoValue
                       /\ TriggerCall.error.code = "ROUTINE_ERROR"
                       /\ TriggerCall.error.thrown.name \in {"Error", "HttpError", "InvalidCron"}

C27_Witness ==
    /\ ValidCall(RENEW)
    /\ Strategy = WEBHOOK
    /\ TriggerCall.pc = "done"
    /\ TriggerCall.result = [success |-> TRUE]

C27_WitnessPolling ==
    /\ ValidCall(RENEW)
    /\ Strategy = POLLING
    /\ Failed({"ASSERT_EQUAL"})

C27_WitnessThrows ==
    /\ ValidCall(RENEW)
    /\ Strategy = WEBHOOK
    /\ Failed({"ROUTINE_ERROR"})

\* C28 (as stated): a HANDSHAKE or a TEST never ends with an error raised to
\* the caller once its routine is invoked: it returns {success: true, ...} or
\* {success: false, message} (with output [] for TEST)
C28_HandshakeAndTestNeverRaise ==
    (ValidCall(HANDSHAKE) \/ ValidCall(TEST)) =>
        /\ TriggerCall.pc # "failed"
        /\ TriggerCall.pc = "done" =>
               IF TriggerCall.returned # NoValue
               THEN TriggerCall.result.success
               ELSE /\ ~TriggerCall.result.success
                    /\ "message" \in DOMAIN TriggerCall.result
                    /\ ValidCall(TEST) => TriggerCall.result.output = <<>>

\* The catch of HANDSHAKE or TEST has thrown: JSON.stringify(e) could not
\* serialize what the routine threw
C28_CatchThrows ==
    /\ ValidCall(HANDSHAKE) \/ ValidCall(TEST)
    /\ Failed({"TYPE_ERROR"})

\* C29: ON_ENABLE returns the listeners handed to createListeners during the
\* call, one for each call and in the order of the calls (none when there was
\* no call); the response of no other hook type has listeners
C29_ListenersInCallOrder ==
    \A hookType \in HookTypes : Responded(hookType) =>
        IF hookType = ON_ENABLE
        THEN TriggerCall.result.listeners = TriggerCall.created
        ELSE "listeners" \notin DOMAIN TriggerCall.result

C29_Witness ==
    /\ Responded(ON_ENABLE)
    /\ Len(TriggerCall.created) = 2
    /\ TriggerCall.created[1] # TriggerCall.created[2]
    /\ TriggerCall.result.listeners = TriggerCall.created

C29_WitnessNone ==
    /\ Responded(ON_ENABLE)
    /\ TriggerCall.created = <<>>
    /\ TriggerCall.result.listeners = <<>>

C29_WitnessOtherHook ==
    /\ Responded(TEST)
    /\ Len(TriggerCall.created) = 2
    /\ DOMAIN TriggerCall.result = {"success", "output"}

(***************************************************************************)
(* flowRunService.addToQueue on a DELAY-typed pause                        *)
(***************************************************************************)

\* Run id is paused by a DELAY-typed pause
DelayPaused(id) ==
    /\ runs[id].status = PAUSED
    /\ runs[id].pauseMetadata.type = "DELAY"

C30_WitnessNoRequest ==
    \E c \in Slots :
        /\ Skipped(c)
        /\ calls[c].pauseMetadata = DelayPause
        /\ calls[c].args.requestId = Undefined
        /\ DelayPaused(calls[c].args.flowRunId)

C30_WitnessTimer ==
    \E id \in DOMAIN runs :
        /\ runs[id].pauseMetadata = DelayPause
        /\ runs[id].status = RUNNING
        /\ calls[1].op = "start"
        /\ opCount = MaxOps

C30_WitnessOverwritten ==
    \E id \in DOMAIN runs :
        /\ runs[id].pauseMetadata.type = "WEBHOOK"
        /\ runs[id].status = PAUSED
        /\ pauseSeq[id] = 2

(***************************************************************************)
(* flowRunService.addToQueue on a run with no pause metadata               *)
(***************************************************************************)

\* Call c is an addToQueue that loaded a run with no pause metadata and went
\* on to start
ResumingUnpaused(c) ==
    /\ Resuming(c)
    /\ isNilPause(calls[c].pauseMetadata)

\* C31: addToQueue on a run with no pause metadata calls start, whatever
\* request id it is given and whatever the status of the run: the run is
\* saved with status RUNNING and one job for it is appended to the queue, with
\* the id of this server as synchronous-handler id.
C31_UnpausedRunIsStarted ==
    [][\A c \in Slots :
        LET id == calls'[c].args.flowRunId
        IN  /\ (/\ LoadsToResume(c)
                /\ isNilPause(runs[id].pauseMetadata))
               => /\ calls'[c].pc = "start"
                  /\ calls'[c].sp.flowRunId = id
                  /\ calls'[c].sp.synchronousHandlerId = ServerId
                  /\ calls'[c].sp.httpRequestId = calls'[c].args.requestId
            /\ (ResumingUnpaused(c) /\ Moves(c) /\ calls[c].pc = "start")
               => /\ calls'[c].pc = "save"
                  /\ calls'[c].flowRun.id = id
            /\ (ResumingUnpaused(c) /\ Moves(c) /\ calls[c].pc = "save")
               => /\ calls'[c].pc = "enqueue"
                  /\ runs'[id].status = RUNNING
            /\ (ResumingUnpaused(c) /\ Moves(c) /\ calls[c].pc = "enqueue")
               => /\ calls'[c].pc = "done"
                  /\ Len(queue') = Len(queue) + 1
                  /\ Last(queue').flowRun.id = id
                  /\ Last(queue').flowRun.status = RUNNING
                  /\ Last(queue').synchronousHandlerId = ServerId]_vars

C31_Witness ==
    \E c \in Slots :
        /\ ResumingUnpaused(c)
        /\ calls[c].pc = "done"
        /\ calls[c].args.requestId = "abc"
        /\ calls[c].flowRun.status \notin {RUNNING, PAUSED}
        /\ runs[calls[c].args.flowRunId].status = RUNNING
        /\ Last(queue).flowRun.id = calls[c].args.flowRunId
        /\ Last(queue).synchronousHandlerId = ServerId

C31_WitnessRunning ==
    \E c \in Slots :
        /\ ResumingUnpaused(c)
        /\ calls[c].pc = "done"
        /\ calls[c].args.requestId = Undefined
        /\ calls[c].flowRun.status = RUNNING
        /\ Len(queue) = 2

(***************************************************************************)
(* flowRunService.updateStatus: the order and the frame of its steps       *)
(***************************************************************************)

\* Call c is an updateStatus with a null execution state, on a run of the store
ReportsNoState(c) ==
    /\ calls'[c].op = "updateStatus"
    /\ calls'[c].args.executionState = NoState
    /\ calls'[c].args.flowRunId \in DOMAIN runs
    /\ Moves(c)

\* C32: updateStatus with a null execution state writes no file and leaves the
\* run's logsFileId as it was; it writes the given status, tasks and tags and
\* the finish time to the record, and ends by handing the reloaded run to the
\* finish side effects.
C32_NullStateKeepsLogs ==
    [][\A c \in Slots :
        LET id == calls'[c].args.flowRunId
            a == calls'[c].args
        IN  ReportsNoState(c) =>
               /\ files' = files
               /\ nextFileId' = nextFileId
               /\ runs'[id].logsFileId = runs[id].logsFileId
               /\ calls[c].pc = "idle"
                     => /\ calls'[c].pc = "populate"
                        /\ runs'[id].status = a.status
                        /\ runs'[id].tasks = a.tasks
                        /\ runs'[id].tags = a.tags
                        /\ runs'[id].finishTime = "now"
               /\ calls[c].pc # "idle"
                     => /\ runs' = runs
                        /\ calls'[c].pc \in {"populate_file", "done"}
                        /\ calls'[c].flowRun = runs[id]
                        /\ calls'[c].flowRun.status = a.status]_vars

C32_Witness ==
    \E c \in Slots :
        /\ calls[c].op = "updateStatus"
        /\ calls[c].pc = "done"
        /\ calls[c].args.executionState = NoState
        /\ calls[c].args.status = FAILED
        /\ calls[c].flowRun.status = FAILED
        /\ calls[c].flowRun.logsFileId \in DOMAIN files
        /\ calls[c].steps = StepsOf({"trigger", "step_1"})

C32_WitnessNoLogs ==
    \E c \in Slots :
        /\ calls[c].op = "updateStatus"
        /\ calls[c].pc = "done"
        /\ calls[c].args.executionState = NoState
        /\ calls[c].flowRun.logsFileId = NoId
        /\ calls[c].flowRun.finishTime = "now"

\* Call c is an updateStatus on a run of the store, taking a step
Reports(c) ==
    /\ calls'[c].op = "updateStatus"
    /\ calls'[c].args.flowRunId \in DOMAIN runs
    /\ Moves(c)

\* The log file of call c holds the call's execution state, in store f
LogsSaved(c, f) ==
    /\ calls[c].fileId \in DOMAIN f
    /\ f[calls[c].fileId].data = serialize(calls[c].args.executionState)

\* C33: the steps of one updateStatus call are in order: the log file is saved
\* while the record is still as it was, the record is updated after the file
\* is in the store, and the finish side effects get the run only after the
\* update, as reloaded from the store: with the given status and the steps of
\* the saved execution state.
C33_UpdateStatusOrder ==
    [][\A c \in Slots :
        LET id == calls'[c].args.flowRunId
            a == calls'[c].args
        IN  Reports(c) =>
               /\ (calls[c].pc = "idle" /\ a.executionState # NoState)
                     => runs' = runs /\ files' = files
               /\ calls[c].pc = "save_logs"
                     => /\ runs' = runs
                        /\ LogsSaved(c, files')
                        /\ calls'[c].pc = "finish_update"
               /\ calls[c].pc = "finish_update"
                     => /\ files' = files
                        /\ LogsSaved(c, files)
                        /\ runs'[id].status = a.status
                        /\ runs'[id].logsFileId = calls[c].fileId
                        /\ calls'[c].pc = "populate"
               /\ calls[c].pc \in {"populate", "populate_file"}
                     => /\ runs' = runs /\ files' = files
                        /\ runs[id].status = a.status
                        /\ calls'[c].flowRun = runs[id]
               /\ calls'[c].pc = "done"
                     => /\ calls[c].pc \in {"populate", "populate_file"}
                        /\ calls'[c].flowRun.status = a.status
                        /\ a.executionState # NoState
                              => calls'[c].steps = a.executionState.steps]_vars

C33_Witness ==
    \E c \in Slots :
        /\ calls[c].op = "updateStatus"
        /\ calls[c].pc = "done"
        /\ calls[c].args.status = SUCCEEDED
        /\ calls[c].args.executionState = [steps |-> StepsOf({"trigger", "step_1"})]
        /\ LogsSaved(c, files)
        /\ calls[c].flowRun = runs[calls[c].args.flowRunId]
        /\ calls[c].flowRun.status = SUCCEEDED
        /\ calls[c].steps = StepsOf({"trigger", "step_1"})

C33_WitnessSavedNotUpdated ==
    \E c \in Slots :
        /\ calls[c].op = "updateStatus"
        /\ calls[c].pc = "finish_update"
        /\ LogsSaved(c, files)
        /\ runs[calls[c].args.flowRunId].status = RUNNING
        /\ runs[calls[c].args.flowRunId].logsFileId = NoId

(***************************************************************************)
(* The fields of a run that are fixed at creation                          *)
(***************************************************************************)

\* C34: the id, projectId, flowId and environment of a run never change once
\* the run is in the store, whatever the operation: addToQueue and retry on a
\* run made with environment TESTING leave it TESTING, though they call start
\* with PRODUCTION. The flowVersionId changes only in a step of retry with
\* ON_LATEST_VERSION.
C34_IdentityFieldsAreFixed ==
    [][\A id \in DOMAIN runs :
          /\ id \in DOMAIN runs'
          /\ runs'[id].id = id
          /\ runs'[id].projectId = runs[id].projectId
          /\ runs'[id].flowId = runs[id].flowId
          /\ runs'[id].environment = runs[id].environment
          /\ runs'[id].flowVersionId # runs[id].flowVersionId
                => /\ calls'[1].op = "retry"
                   /\ calls'[1].args.strategy = ON_LATEST_VERSION
                   /\ calls'[1].args.flowRunId = id]_vars

C34_Witness ==
    \E id \in DOMAIN runs :
        /\ runs[id].environment = TESTING
        /\ runs[id].flowVersionId = "v2"
        /\ calls[1].op = "retry"
        /\ calls[1].pc = "done"
        /\ calls[1].sp # NoParams
        /\ calls[1].sp.environment = PRODUCTION
        /\ Last(queue).flowRun.id = id
        /\ Last(queue).flowRun.environment = TESTING

C34_WitnessResume ==
    \E id \in DOMAIN runs :
        /\ runs[id].environment = TESTING
        /\ calls[1].op = "addToQueue"
        /\ calls[1].pc = "done"
        /\ calls[1].sp # NoParams
        /\ calls[1].sp.environment = PRODUCTION
        /\ calls[1].pauseMetadata.type = "WEBHOOK"
        /\ Last(queue).flowRun.id = id
        /\ Len(queue) = 2

C34_WitnessStartOtherVersion ==
    \E id \in DOMAIN runs :
        /\ runs[id].flowVersionId = "v2"
        /\ calls[1].op = "start"
        /\ calls[1].pc = "done"
        /\ calls[1].sp.flowRunId = id
        /\ calls[1].sp.flowVersionId = "v1"

(***************************************************************************)
(* flowRunService.retry with ON_LATEST_VERSION                             *)
(***************************************************************************)

\* Call c is a retry with ON_LATEST_VERSION that has returned
RetriedOnLatest(c) ==
    /\ calls[c].op = "retry"
    /\ calls[c].args.strategy = ON_LATEST_VERSION
    /\ calls[c].pc = "done"

\* The queue has a job that retry enqueued for run id
EnqueuedByRetry(id) ==
    \E i \in 1..Len(queue) : queue[i].via = "retry" /\ queue[i].flowRun.id = id

\* C35 (as stated): a retry with ON_LATEST_VERSION that has returned without
\* calling start (its addToQueue found pause metadata that does not match) has
\* left the flowVersionId of the run as it loaded it: the run is never rebound
\* to the latest locked version without being enqueued.
C35_RetryAllOrNothing ==
    \A c \in Slots :
        (RetriedOnLatest(c) /\ calls[c].sp = NoParams)
        => runs[calls[c].args.flowRunId].flowVersionId = calls[c].flowRun.flowVersionId

\* A retry with ON_LATEST_VERSION rebound the run and enqueued nothing
C35_ReboundNotEnqueued ==
    \E c \in Slots :
        /\ RetriedOnLatest(c)
        /\ calls[c].sp = NoParams
        /\ calls[c].flowRun.flowVersionId = "v1"
        /\ runs[calls[c].args.flowRunId].flowVersionId = "v2"
        /\ ~EnqueuedByRetry(calls[c].args.flowRunId)

(***************************************************************************)
(* executeTrigger: RUN on an APP_WEBHOOK trigger and the verification      *)
(***************************************************************************)

\* C36 (as stated): in a RUN on an APP_WEBHOOK trigger the run routine is
\* invoked only after the verification of the piece gave true: not when the
\* piece has no verification, and not when the verification gave another value.
C36_RunOnlyIfVerified ==
    (AppWebhookRun /\ Invoked("run"))
    => /\ TriggerCall.params.verify = "true"
       /\ Invoked("verify")

\* The run routine of an APP_WEBHOOK trigger was invoked, and returned, with
\* no verification made
C36_RunUnverified ==
    /\ AppWebhookRun
    /\ TriggerCall.params.verify = "absent"
    /\ TriggerCall.invoked = <<"run">>
    /\ TriggerCall.pc = "done"
    /\ TriggerCall.result.success

(***************************************************************************)
(* flowRunService.start when the hand-over to the queue fails              *)
(***************************************************************************)

\* The queue has a job for run id
Enqueued(id) == \E i \in 1..Len(queue) : queue[i].flowRun.id = id

\* A start call is between its save and its hand-over of run id
BeingEnqueued(id) ==
    \E c \in Slots : calls[c].pc = "enqueue" /\ calls[c].saved.id = id

\* C37 (as stated): every record that start has saved with status RUNNING has
\* a job in the queue once start has ended, also when the hand-over to the
\* queue failed: no record is left RUNNING with no job.
C37_RunningImpliesEnqueued ==
    \A id \in DOMAIN runs :
        runs[id].status = RUNNING => (Enqueued(id) \/ BeingEnqueued(id))

\* start has failed in the hand-over, and its record is RUNNING with no job
C37_RunningNotEnqueued ==
    \E c \in Slots :
        /\ calls[c].pc = "failed"
        /\ calls[c].error = "SIDE_EFFECT_FAILED"
        /\ calls[c].saved # NoRun
        /\ runs[calls[c].saved.id].status = RUNNING
        /\ ~Enqueued(calls[c].saved.id)

(***************************************************************************)
(* The Test Code button of the fullscreen code editor                      *)
(***************************************************************************)

TestCodeComponent == calls[1]

\* The button is disabled exactly while the flow is saving or a test runs
DisabledWhileSavingOrTesting ==
    TestCodeComponent.disableTestCodeBtn
        <=> (TestCodeComponent.isSaving \/ TestCodeComponent.testing)

\* C38 (as stated): the Test Code button is disabled exactly while the flow is
\* saving or a test is in progress, and after every testCode() the testing
\* flag is false again at some time, whether the request gives a result,
\* fails, or the step or the flow version id is missing.
C38_TestingEventuallyEnds ==
    /\ []DisabledWhileSavingOrTesting
    /\ TestCodeComponent.testing ~> ~TestCodeComponent.testing

\* The test request failed and the testing flag is still set, the button
\* disabled
C38_StuckTesting ==
    /\ TestCodeComponent.pc = "errored"
    /\ TestCodeComponent.step = "step_1"
    /\ TestCodeComponent.flowVersionId = "v1"
    /\ TestCodeComponent.testing
    /\ ~TestCodeComponent.isSaving
    /\ TestCodeComponent.disableTestCodeBtn

\* The part of C38 that holds: the state of the button
C38_ButtonState == []DisabledWhileSavingOrTesting

====
